---- MODULE Spec2Model ----
(***************************************************************************)
(* Model of the mod overlay engine of SSML (src/core.py) and of the view   *)
(* model that drives it (src/viewmodels/main_viewmodel.py).                *)
(*                                                                         *)
(* A path is a sequence of path parts; a part (a folder or file name) is   *)
(* the sequence of the tokens between its dots, so "x.unity3d" is          *)
(* <<"x", "unity3d">> and joining names with "." is concatenation of       *)
(* token sequences.  File contents are strings; a file that does not exist *)
(* has the content Absent.                                                 *)
(***************************************************************************)
EXTENDS Naturals, Sequences, FiniteSets, TLC

VARIABLES
    mods,        \* mods directory: mod path -> content
    game,        \* game resource directory: game path -> content
    backups,     \* backups directory: backup path -> content
    status,      \* ModsStatusManager._status_data of the current loader
    dirty,       \* ModsStatusManager._dirty of the current loader
    statusFile,  \* the side-car ModsStatus.json
    envCount,    \* number of changes made from outside the program so far
    last,        \* the last operation, its arguments and what it returned
    launch,      \* the launch in progress, its loader and the game process
    setup,       \* config.ini and whether the mods directory it names exists
    ui           \* MainWindow: the running flag and the pending single-shot timer

vars == <<mods, game, backups, status, dirty, statusFile, envCount, last, launch,
          setup, ui>>

----------------------------------------------------------------------------
(* Bounds of the model *)

\* changes made from outside (mod edited or deleted, game file patched)
MaxEnv == 2

----------------------------------------------------------------------------
(* The universe of files *)

Absent == "ABSENT"

ModExtension == "unity3d"
NameX == <<"x", ModExtension>>

\* two mods with the same file name in different folders
ModA == << <<"A">>, NameX >>
ModB == << <<"B">>, NameX >>
ModPaths == {ModA, ModB}

\* further files of the mods directory, used where the store is checked on
\* its own: a mod with another name, a hidden file ".x.unity3d" and a file
\* that does not have the mod extension
ModY == << <<"A">>, <<"y", ModExtension>> >>
ModHidden == << <<"A">>, <<"", "x", ModExtension>> >>
ModTxt == << <<"A">>, <<"x", "txt">> >>
\* the mods the user interface lists and the store is asked about
TrackedMods == {ModA, ModB, ModY}
StorePaths == TrackedMods \cup {ModHidden, ModTxt}

\* the order in which mods_dir.rglob lists the files
ModOrder == <<ModHidden, ModTxt, ModA, ModY, ModB>>

\* two game files with that name in different game sub folders
GameF1 == << <<"G1">>, NameX >>
GameF2 == << <<"G2">>, <<"Sub">>, NameX >>
GamePaths == {GameF1, GameF2}

RECURSIVE SetToSeq(_)
SetToSeq(S) ==
    IF S = {} THEN <<>>
    ELSE LET x == CHOOSE y \in S : TRUE IN <<x>> \o SetToSeq(S \ {x})

\* game trees used where the names of the backups are checked: folders named
\* "a", "b", "a.b" and "backup", nested up to two deep, and files named
\* "x.unity3d", ".x.unity3d" and "x.backup.unity3d"
FolderNames == {<<"a">>, <<"b">>, <<"a", "b">>, <<"backup">>}
FolderPaths ==
    {<<>>} \cup {<<f>> : f \in FolderNames}
           \cup {<<f, g>> : f \in FolderNames, g \in FolderNames}
FileNames == {NameX, <<"", "x", ModExtension>>, <<"x", "backup", ModExtension>>}
TreePaths == {Append(d, n) : d \in FolderPaths, n \in FileNames}

\* the order in which game_resource_dir.rglob lists the files
GameOrder == <<GameF1, GameF2>> \o SetToSeq(TreePaths)

ModContents == {"v1", "v2"}
\* the mods as installed
InstalledMods == [m \in ModPaths |-> IF m = ModA THEN "v1" ELSE "v2"]
\* what the user can make of a mod file: ModA is edited, deleted and put
\* back, ModB is deleted and put back
UserContents(mod_path) ==
    IF mod_path = ModA THEN ModContents \cup {Absent}
    ELSE {InstalledMods[mod_path], Absent}
\* what a game update writes over a game file
GameContents == {"patch"}
\* the game files a game update rewrites
PatchedFiles == {GameF1}

Name(path) == path[Len(path)]
Parent(path) == SubSeq(path, 1, Len(path) - 1)

\* hashlib.sha256(bytes).hexdigest(): a string, different for different contents
GetFileHash(content) == "sha256:" \o content

----------------------------------------------------------------------------
(* Backup file names *)

RECURSIVE Flatten(_)
Flatten(parts) ==
    IF parts = <<>> THEN <<>> ELSE Head(parts) \o Flatten(Tail(parts))

\* ".".join(parts): the empty join is the empty string, which is one empty token
DotJoin(parts) == IF parts = <<>> THEN <<"">> ELSE Flatten(parts)

\* the backup of game_file made for mod_file: Backups/<mod folder>/<name>.backup.<game folders>
GetBackupPath(mod_file, game_file) ==
    [dir  |-> Parent(mod_file),
     name |-> Name(game_file) \o <<"backup">> \o DotJoin(Parent(game_file))]

BackupPaths == {GetBackupPath(m, g) : m \in ModPaths, g \in GamePaths}

NoBackups == [b \in BackupPaths |-> Absent]

----------------------------------------------------------------------------
(* ModsStatusManager: the status store.  A world w is a record of the      *)
(* files and of the store: [mods, game, backups, status, dirty].           *)

NoHash == ""

Entry(path, hash, applied_hash, enabled) ==
    [path |-> path, hash |-> hash, applied_hash |-> applied_hash, enabled |-> enabled]

\* file_path.relative_to(mods_dir).as_posix(): mod paths of the model are
\* already relative to the mods directory
GetRelativePath(file_path) == file_path

Indices(data, rel_path) == {i \in 1..Len(data) : data[i].path = rel_path}
Min(S) == CHOOSE x \in S : \A y \in S : x <= y
Max(S) == CHOOSE x \in S : \A y \in S : x >= y

\* the first entry of the list with that path, 0 when there is none
FirstIndex(data, file_path) ==
    LET found == Indices(data, GetRelativePath(file_path))
    IN IF found = {} THEN 0 ELSE Min(found)

HasEntry(data, file_path) == FirstIndex(data, file_path) # 0
GetEntry(data, file_path) == data[FirstIndex(data, file_path)]

GetStatus(data, file_path) ==
    IF HasEntry(data, file_path) THEN GetEntry(data, file_path).enabled ELSE FALSE

\* applied_hash as _apply_mod reads it: "" when there is no entry
AppliedHashOf(data, file_path) ==
    IF HasEntry(data, file_path) THEN GetEntry(data, file_path).applied_hash ELSE NoHash

\* SetStatus as it would be without the search for an existing entry
SetStatusAlwaysAppends(w, file_path, enabled) ==
    [w EXCEPT
        !.status = Append(@, Entry(GetRelativePath(file_path),
                                   GetFileHash(w.mods[file_path]),
                                   NoHash, enabled)),
        !.dirty = TRUE]

SetStatus(w, file_path, enabled) ==
    LET i == FirstIndex(w.status, file_path)
    IN IF i # 0
       THEN [w EXCEPT !.status[i].enabled = enabled, !.dirty = TRUE]
       ELSE [w EXCEPT
                !.status = Append(@, Entry(GetRelativePath(file_path),
                                           GetFileHash(w.mods[file_path]),
                                           NoHash, enabled)),
                !.dirty = TRUE]

SetAppliedHash(w, file_path, applied_hash) ==
    LET i == FirstIndex(w.status, file_path)
    IN IF i # 0
       THEN [w EXCEPT !.status[i].applied_hash = applied_hash, !.dirty = TRUE]
       ELSE w

\* GetEnabledModsWithSameName as it would be without the test of the name
GetEnabledModsWithSameNameAnyName(data, filename, exclude_path) ==
    SelectSeq(data, LAMBDA e :
        e.enabled /\ e.path # GetRelativePath(exclude_path))

\* the entries other than exclude_path that are enabled and have that file name
GetEnabledModsWithSameName(data, filename, exclude_path) ==
    SelectSeq(data, LAMBDA e :
        e.enabled /\ Name(e.path) = filename /\ e.path # GetRelativePath(exclude_path))

\* fnmatch of a file name against the pattern "*" + mod_extension
MatchesPattern(name) == Len(name) >= 2 /\ name[Len(name)] = ModExtension

\* CurrentFiles as it would be without the filter on the leading dot
CurrentFilesWithHidden(w) ==
    SelectSeq(ModOrder, LAMBDA m :
        m \in DOMAIN w.mods /\ w.mods[m] # Absent /\ MatchesPattern(Name(m)))

\* the files of the mods directory that match the pattern, hidden files
\* (leading dot) left out
CurrentFiles(w) ==
    SelectSeq(ModOrder, LAMBDA m :
        /\ m \in DOMAIN w.mods /\ w.mods[m] # Absent
        /\ MatchesPattern(Name(m))
        /\ Name(m)[1] # "")

InSeq(x, seq) == \E i \in 1..Len(seq) : seq[i] = x

\* SyncFiles as it would be if a changed file lost its applied_hash
RECURSIVE SyncFilesClearsAppliedHash(_, _, _, _)
SyncFilesClearsAppliedHash(data, existing, files, w) ==
    IF files = <<>> THEN data
    ELSE LET rel_path == GetRelativePath(Head(files))
             current_hash == GetFileHash(w.mods[Head(files)])
             found == Indices(existing, rel_path)
             next == IF found # {}
                     THEN IF data[Max(found)].hash # current_hash
                          THEN [data EXCEPT ![Max(found)].hash = current_hash,
                                            ![Max(found)].applied_hash = NoHash]
                          ELSE data
                     ELSE Append(data, Entry(rel_path, current_hash, NoHash, FALSE))
         IN SyncFilesClearsAppliedHash(next, existing, Tail(files), w)

\* one pass of the loop over current_files (core.py 189-210)
\* (existing_entries is the dict built from the kept entries before the loop:
\* of two entries with one path it holds the later one)
RECURSIVE SyncFiles(_, _, _, _)
SyncFiles(data, existing, files, w) ==
    IF files = <<>> THEN data
    ELSE LET rel_path == GetRelativePath(Head(files))
             current_hash == GetFileHash(w.mods[Head(files)])
             found == Indices(existing, rel_path)
             next == IF found # {}
                     THEN [data EXCEPT ![Max(found)].hash = current_hash]
                     ELSE Append(data, Entry(rel_path, current_hash, NoHash, FALSE))
         IN SyncFiles(next, existing, Tail(files), w)

\* SyncWithFiles as it would be if the entries of absent files were kept
SyncWithFilesKeepsOrphans(w) ==
    LET current_files == CurrentFiles(w)
        orphaned_mods == SelectSeq(w.status, LAMBDA e :
                             ~InSeq(e.path, current_files) /\ e.enabled)
        present == SelectSeq(w.status, LAMBDA e : InSeq(e.path, current_files))
        absent == SelectSeq(w.status, LAMBDA e : ~InSeq(e.path, current_files))
    IN [w |-> [w EXCEPT !.status = SyncFiles(present, present, current_files, w) \o absent,
                        !.dirty = TRUE],
        orphaned |-> orphaned_mods]

\* sync_with_files: the world after it and the orphaned entries it returns
SyncWithFiles(w) ==
    LET current_files == CurrentFiles(w)
        orphaned_mods == SelectSeq(w.status, LAMBDA e :
                             ~InSeq(e.path, current_files) /\ e.enabled)
        kept == SelectSeq(w.status, LAMBDA e : InSeq(e.path, current_files))
    IN [w |-> [w EXCEPT !.status = SyncFiles(kept, kept, current_files, w), !.dirty = TRUE],
        orphaned |-> orphaned_mods]

\* ModsStatusManager.load: a missing or unreadable file gives the empty list
Load(file) == IF file.exists THEN file.data ELSE <<>>

----------------------------------------------------------------------------
(* StellaSoraModLoader: the overlay engine *)

\* CopyGameToBackup as it would be if the copy to the backup were left out
CopyGameToBackupNowhere(w, game_file, backup_path) ==
    w

\* shutil.copy2 between the three directories
CopyGameToBackup(w, game_file, backup_path) ==
    [w EXCEPT !.backups[backup_path] = w.game[game_file]]
CopyModToGame(w, mod_path, game_file) ==
    [w EXCEPT !.game[game_file] = w.mods[mod_path]]
\* (the copy creates game_file when the folder has no such file yet)
CopyBackupToGame(w, backup_path, game_file) ==
    [w EXCEPT !.game = [g \in DOMAIN w.game \cup {game_file} |->
        IF g = game_file THEN w.backups[backup_path] ELSE w.game[g]]]
Unlink(w, backup_path) ==
    [w EXCEPT !.backups[backup_path] = Absent]

\* game_resource_dir.rglob(mod_file.name): the existing game files with the mod's name
FindOriginalFiles(w, mod_file) ==
    SelectSeq(GameOrder, LAMBDA g :
        g \in DOMAIN w.game /\ w.game[g] # Absent /\ Name(g) = Name(mod_file))

\* ApplyCase as it would be without the test mod_hash == game_hash
ApplyCaseNoSkip(w, mod_path, game_file, mod_hash, applied_hash) ==
    LET game_hash == GetFileHash(w.game[game_file])
        backup_path == GetBackupPath(mod_path, game_file)
    IN IF w.backups[backup_path] = Absent THEN "backed up & applied"
       ELSE IF game_hash = applied_hash /\ applied_hash # NoHash THEN "applied new mod"
       ELSE "re-backed up & applied"

\* the branch of the decision table _apply_mod takes for one game file
ApplyCase(w, mod_path, game_file, mod_hash, applied_hash) ==
    LET game_hash == GetFileHash(w.game[game_file])
        backup_path == GetBackupPath(mod_path, game_file)
    IN IF mod_hash = game_hash THEN "already applied"
       ELSE IF w.backups[backup_path] = Absent THEN "backed up & applied"
       ELSE IF game_hash = applied_hash /\ applied_hash # NoHash THEN "applied new mod"
       ELSE "re-backed up & applied"

\* ApplyTarget as it would be if the first overlay made no backup
ApplyTargetNoBackup(w, mod_path, game_file, mod_hash, applied_hash) ==
    LET backup_path == GetBackupPath(mod_path, game_file)
        case == ApplyCase(w, mod_path, game_file, mod_hash, applied_hash)
    IN IF case = "already applied" THEN w
       ELSE IF case = "backed up & applied"
       THEN CopyModToGame(w, mod_path, game_file)
       ELSE IF case = "applied new mod"
       THEN LET restored == CopyBackupToGame(w, backup_path, game_file)
                rebacked == CopyGameToBackup(restored, game_file, backup_path)
            IN CopyModToGame(rebacked, mod_path, game_file)
       ELSE CopyModToGame(CopyGameToBackup(w, game_file, backup_path), mod_path, game_file)

\* ApplyTarget as it would be if an updated game file were not backed up again
ApplyTargetKeepsOldBackup(w, mod_path, game_file, mod_hash, applied_hash) ==
    LET backup_path == GetBackupPath(mod_path, game_file)
        case == ApplyCase(w, mod_path, game_file, mod_hash, applied_hash)
    IN IF case = "already applied" THEN w
       ELSE IF case = "backed up & applied"
       THEN CopyModToGame(CopyGameToBackup(w, game_file, backup_path), mod_path, game_file)
       ELSE IF case = "applied new mod"
       THEN LET restored == CopyBackupToGame(w, backup_path, game_file)
                rebacked == CopyGameToBackup(restored, game_file, backup_path)
            IN CopyModToGame(rebacked, mod_path, game_file)
       ELSE CopyModToGame(w, mod_path, game_file)

\* ApplyTarget as it would be if the old mod were backed up instead of undone
ApplyTargetBacksUpOldMod(w, mod_path, game_file, mod_hash, applied_hash) ==
    LET backup_path == GetBackupPath(mod_path, game_file)
        case == ApplyCase(w, mod_path, game_file, mod_hash, applied_hash)
    IN IF case = "already applied" THEN w
       ELSE CopyModToGame(CopyGameToBackup(w, game_file, backup_path), mod_path, game_file)

\* the body of the loop of _apply_mod for one game file (core.py 410-440)
ApplyTarget(w, mod_path, game_file, mod_hash, applied_hash) ==
    LET backup_path == GetBackupPath(mod_path, game_file)
        case == ApplyCase(w, mod_path, game_file, mod_hash, applied_hash)
    IN IF case = "already applied" THEN w
       ELSE IF case = "backed up & applied"
       THEN CopyModToGame(CopyGameToBackup(w, game_file, backup_path), mod_path, game_file)
       ELSE IF case = "applied new mod"
       THEN LET restored == CopyBackupToGame(w, backup_path, game_file)
                rebacked == CopyGameToBackup(restored, game_file, backup_path)
            IN CopyModToGame(rebacked, mod_path, game_file)
       ELSE CopyModToGame(CopyGameToBackup(w, game_file, backup_path), mod_path, game_file)

\* the loop of _apply_mod: the world after it and the line logged for each file
RECURSIVE ApplyLoop(_, _, _, _, _, _)
ApplyLoop(w, log, mod_path, game_files, mod_hash, applied_hash) ==
    IF game_files = <<>> THEN [w |-> w, log |-> log]
    ELSE LET game_file == Head(game_files)
         IN ApplyLoop(ApplyTarget(w, mod_path, game_file, mod_hash, applied_hash),
                      Append(log, <<game_file,
                                    ApplyCase(w, mod_path, game_file, mod_hash, applied_hash)>>),
                      mod_path, Tail(game_files), mod_hash, applied_hash)

\* ApplyMod as it would be if applied_hash were stored before the search for
\* game files
ApplyModHashOnFailure(w, mod_path) ==
    LET mod_hash == GetFileHash(w.mods[mod_path])
        applied_hash == AppliedHashOf(w.status, mod_path)
        game_files == FindOriginalFiles(w, mod_path)
    IN IF game_files = <<>>
       THEN [w |-> SetAppliedHash(w, mod_path, mod_hash),
             ok |-> FALSE, log |-> << <<mod_path, "no game files found">> >>]
       ELSE LET done == ApplyLoop(w, <<>>, mod_path, game_files, mod_hash, applied_hash)
            IN [w |-> SetAppliedHash(done.w, mod_path, mod_hash),
                ok |-> TRUE, log |-> done.log]

\* _apply_mod: [w, ok, log]
ApplyMod(w, mod_path) ==
    LET mod_hash == GetFileHash(w.mods[mod_path])
        applied_hash == AppliedHashOf(w.status, mod_path)
        game_files == FindOriginalFiles(w, mod_path)
    IN IF game_files = <<>>
       THEN [w |-> w, ok |-> FALSE, log |-> << <<mod_path, "no game files found">> >>]
       ELSE LET done == ApplyLoop(w, <<>>, mod_path, game_files, mod_hash, applied_hash)
            IN [w |-> SetAppliedHash(done.w, mod_path, mod_hash),
                ok |-> TRUE, log |-> done.log]

\* UnapplyTarget as it would be without backup_path.unlink()
UnapplyTargetKeepsBackup(w, mod_path, game_file) ==
    LET backup_path == GetBackupPath(mod_path, game_file)
    IN IF w.backups[backup_path] # Absent
       THEN CopyBackupToGame(w, backup_path, game_file)
       ELSE w

\* the body of the loop of _unapply_mod for one game file (core.py 453-460)
UnapplyTarget(w, mod_path, game_file) ==
    LET backup_path == GetBackupPath(mod_path, game_file)
    IN IF w.backups[backup_path] # Absent
       THEN Unlink(CopyBackupToGame(w, backup_path, game_file), backup_path)
       ELSE w

\* the line _unapply_mod logs for one game file
UnapplyCase(w, mod_path, game_file) ==
    IF w.backups[GetBackupPath(mod_path, game_file)] # Absent
    THEN "restored" ELSE "no backup found"

\* the loop of _unapply_mod: the world after it and the line logged for each file
RECURSIVE UnapplyLoop(_, _, _, _)
UnapplyLoop(w, log, mod_path, game_files) ==
    IF game_files = <<>> THEN [w |-> w, log |-> log]
    ELSE LET game_file == Head(game_files)
         IN UnapplyLoop(UnapplyTarget(w, mod_path, game_file),
                        Append(log, <<game_file, UnapplyCase(w, mod_path, game_file)>>),
                        mod_path, Tail(game_files))

\* UnapplyMod as it would be without set_applied_hash(mod_path, "")
UnapplyModKeepsHash(w, mod_path) ==
    LET done == UnapplyLoop(w, <<>>, mod_path, FindOriginalFiles(w, mod_path))
    IN [w |-> done.w, log |-> done.log]

\* _unapply_mod: [w, log]
UnapplyMod(w, mod_path) ==
    LET done == UnapplyLoop(w, <<>>, mod_path, FindOriginalFiles(w, mod_path))
    IN [w |-> SetAppliedHash(done.w, mod_path, NoHash), log |-> done.log]

\* ToggleMod as it would be if the flag were stored whatever apply returned
ToggleModAlwaysSets(w, mod_path, enable) ==
    LET ensured == IF enable /\ ~HasEntry(w.status, mod_path)
                   THEN SetStatus(w, mod_path, FALSE) ELSE w
        done == IF enable THEN ApplyMod(ensured, mod_path)
                ELSE LET undone == UnapplyMod(ensured, mod_path)
                     IN [w |-> undone.w, ok |-> TRUE, log |-> undone.log]
    IN [w |-> SetStatus(done.w, mod_path, enable), ok |-> done.ok, log |-> done.log]

\* toggle_mod: [w, ok, log]
ToggleMod(w, mod_path, enable) ==
    LET ensured == IF enable /\ ~HasEntry(w.status, mod_path)
                   THEN SetStatus(w, mod_path, FALSE) ELSE w
        done == IF enable THEN ApplyMod(ensured, mod_path)
                ELSE LET undone == UnapplyMod(ensured, mod_path)
                     IN [w |-> undone.w, ok |-> TRUE, log |-> undone.log]
    IN [w |-> IF done.ok THEN SetStatus(done.w, mod_path, enable) ELSE done.w,
        ok |-> done.ok, log |-> done.log]

\* the positions of the tokens at which str.split(".backup.") cuts the name:
\* a token "backup" with a token on either side, found left to right, a
\* match using up the dots around it
RECURSIVE SplitPoints(_, _)
SplitPoints(tokens, i) ==
    IF i >= Len(tokens) THEN <<>>
    ELSE IF tokens[i] = "backup" THEN <<i>> \o SplitPoints(tokens, i + 2)
    ELSE SplitPoints(tokens, i + 1)

\* the name without the leading dot of a legacy backup
StripLeadingDot(tokens) ==
    IF Len(tokens) >= 2 /\ tokens[1] = "" THEN Tail(tokens) ELSE tokens

\* the game file restore_backup_file rebuilds from a backup's name, <<>> when
\* the name does not split in two
RestoreTarget(backup_tokens) ==
    LET backup_name == StripLeadingDot(backup_tokens)
        cuts == SplitPoints(backup_name, 2)
    IN IF Len(cuts) # 1 THEN <<>>
       ELSE LET original_name == SubSeq(backup_name, 1, cuts[1] - 1)
                path_suffix == SubSeq(backup_name, cuts[1] + 1, Len(backup_name))
                relative_parts == SelectSeq(path_suffix, LAMBDA part : part # "")
            IN [i \in 1..Len(relative_parts) |-> <<relative_parts[i]>>]
                   \o <<original_name>>

IsPrefix(p, seq) == Len(p) <= Len(seq) /\ SubSeq(seq, 1, Len(p)) = p

\* target_path.exists()
TargetExists(w, target_path) ==
    target_path \in DOMAIN w.game /\ w.game[target_path] # Absent

\* target_path.parent.exists(): the folders of the game tree are the folders
\* of the paths of w.game and the folders above them
ParentExists(w, target_path) ==
    \E g \in DOMAIN w.game : IsPrefix(Parent(target_path), Parent(g))

\* restore_backup_file whatever the folders are
RestoreBackupFileAnyFolder(w, backup) ==
    LET target_path == RestoreTarget(backup.name)
    IN IF target_path = <<>> THEN [w |-> w, log |-> <<>>]
       ELSE [w |-> Unlink(CopyBackupToGame(w, backup, target_path), backup),
             log |-> << <<target_path, "Restored">> >>]

\* restore_backup_file: [w, log]
RestoreBackupFile(w, backup) ==
    LET target_path == RestoreTarget(backup.name)
    IN IF target_path = <<>> THEN [w |-> w, log |-> <<>>]
       ELSE IF TargetExists(w, target_path) \/ ParentExists(w, target_path)
       THEN [w |-> Unlink(CopyBackupToGame(w, backup, target_path), backup),
             log |-> << <<target_path, "Restored">> >>]
       ELSE [w |-> w, log |-> <<>>]

\* backup_subdir.glob(f"{mod_name}.backup.*")
GlobBackups(w, backup_subdir, mod_name) ==
    SetToSeq({b \in DOMAIN w.backups :
        /\ w.backups[b] # Absent
        /\ b.dir = backup_subdir
        /\ Len(b.name) > Len(mod_name) + 1
        /\ IsPrefix(mod_name \o <<"backup">>, b.name)})

RECURSIVE RestoreFiles(_, _)
RestoreFiles(w, found) ==
    IF found = <<>> THEN w
    ELSE RestoreFiles(RestoreBackupFile(w, Head(found)).w, Tail(found))

\* fnmatch of a backup's name against "*.backup.*"
MatchesBackupPattern(name) == \E i \in 2..(Len(name) - 1) : name[i] = "backup"

\* restore_all: every file of the backups directory named *.backup.* is restored
RestoreAll(w) ==
    RestoreFiles(w, SetToSeq({b \in DOMAIN w.backups :
        w.backups[b] # Absent /\ MatchesBackupPattern(b.name)}))

\* restore_orphaned_backups
RECURSIVE RestoreOrphanedBackups(_, _)
RestoreOrphanedBackups(w, orphaned_entries) ==
    IF orphaned_entries = <<>> THEN w
    ELSE LET mod_rel_path == Head(orphaned_entries).path
             backups_found == GlobBackups(w, Parent(mod_rel_path), Name(mod_rel_path))
         IN RestoreOrphanedBackups(RestoreFiles(w, backups_found), Tail(orphaned_entries))

\* get_mods_list
GetModsList(w) == CurrentFiles(w)

IsDisabled(w, path) == ~GetStatus(w.status, path)

\* check_duplicate_conflict
CheckDuplicateConflict(w, mod_path) ==
    GetEnabledModsWithSameName(w.status, Name(mod_path), mod_path)

\* the test of verify_enabled_mods for one mod (core.py 481-491)
NeedsReapply(w, mod_path) ==
    LET game_files == FindOriginalFiles(w, mod_path)
    IN \E i \in 1..Len(game_files) :
           GetFileHash(w.game[game_files[i]]) # GetFileHash(w.mods[mod_path])

RECURSIVE VerifyLoop(_, _, _)
VerifyLoop(w, log, enabled_mods) ==
    IF enabled_mods = <<>> THEN [w |-> w, log |-> log]
    ELSE LET mod_path == Head(enabled_mods)
             applied == ApplyMod(w, mod_path)
         IN IF NeedsReapply(w, mod_path)
            THEN VerifyLoop(applied.w, log \o applied.log, Tail(enabled_mods))
            ELSE VerifyLoop(w, Append(log, <<mod_path, "Verified">>), Tail(enabled_mods))

\* verify_enabled_mods: [w, log]
VerifyEnabledMods(w) ==
    VerifyLoop(w, <<>>, SelectSeq(GetModsList(w), LAMBDA m : ~IsDisabled(w, m)))

\* backup_original_files: every game file of the mod's name that differs
\* from the mod is copied to its backup path: [w, backedup_files]
RECURSIVE BackupOriginalFiles(_, _, _, _)
BackupOriginalFiles(w, mod_file, original_files, backedup_files) ==
    IF original_files = <<>> THEN [w |-> w, backedup_files |-> backedup_files]
    ELSE LET original_file == Head(original_files)
         IN IF GetFileHash(w.game[original_file]) = GetFileHash(w.mods[mod_file])
            THEN BackupOriginalFiles(w, mod_file, Tail(original_files), backedup_files)
            ELSE BackupOriginalFiles(
                     CopyGameToBackup(w, original_file,
                                      GetBackupPath(mod_file, original_file)),
                     mod_file, Tail(original_files),
                     Append(backedup_files, original_file))

\* the copy of the mod onto the files backup_original_files returned
RECURSIVE InstallTargets(_, _, _)
InstallTargets(w, mod_file, target_files) ==
    IF target_files = <<>> THEN w
    ELSE InstallTargets(CopyModToGame(w, mod_file, Head(target_files)),
                        mod_file, Tail(target_files))

\* the loop of install_mod over the enabled mods
RECURSIVE InstallLoop(_, _)
InstallLoop(w, active_mods) ==
    IF active_mods = <<>> THEN w
    ELSE LET mod_file == Head(active_mods)
             backed == BackupOriginalFiles(w, mod_file,
                                           FindOriginalFiles(w, mod_file), <<>>)
         IN InstallLoop(InstallTargets(backed.w, mod_file, backed.backedup_files),
                        Tail(active_mods))

\* install_mod
InstallMod(w) ==
    InstallLoop(w, SelectSeq(GetModsList(w), LAMBDA m : ~IsDisabled(w, m)))

\* the loop of verify_enabled_mods when reading the mod file `failing` raises
\* (get_file_hash, core.py 481): the exception leaves the loop and the
\* function, which has no handler: [w, log, raised]
RECURSIVE VerifyLoopRaising(_, _, _, _)
VerifyLoopRaising(w, log, enabled_mods, failing) ==
    IF enabled_mods = <<>> THEN [w |-> w, log |-> log, raised |-> FALSE]
    ELSE LET mod_path == Head(enabled_mods)
             applied == ApplyMod(w, mod_path)
         IN IF mod_path = failing
            THEN [w |-> w, log |-> log, raised |-> TRUE]
            ELSE IF NeedsReapply(w, mod_path)
            THEN VerifyLoopRaising(applied.w, log \o applied.log,
                                   Tail(enabled_mods), failing)
            ELSE VerifyLoopRaising(w, Append(log, <<mod_path, "Verified">>),
                                   Tail(enabled_mods), failing)

\* verify_enabled_mods with that failure: [w, log, raised]
VerifyEnabledModsRaising(w, failing) ==
    VerifyLoopRaising(w, <<>>, SelectSeq(GetModsList(w), LAMBDA m : ~IsDisabled(w, m)),
                      failing)

----------------------------------------------------------------------------
(* MainViewModel: the shell that builds the loader and calls it *)

\* StellaSoraModLoader(...): a new engine whose store is read from the side-car
CreateLoader(w, file) == [w EXCEPT !.status = Load(file), !.dirty = FALSE]

\* the refresh that load_mods and GameLauncherWorker.run do on their loader:
\* sync, then restore the game files of the orphaned mods
SyncAndRestore(w) ==
    LET synced == SyncWithFiles(w)
    IN [w |-> RestoreOrphanedBackups(synced.w, synced.orphaned),
        orphaned |-> synced.orphaned]

\* load_mods: [w, orphaned] (the mods directory of the model always exists)
LoadMods(w, file) == SyncAndRestore(CreateLoader(w, file))

\* the loop of toggle_all_mods: [w, count]
RECURSIVE ToggleAllLoop(_, _, _, _)
ToggleAllLoop(w, count, mod_list, enable) ==
    IF mod_list = <<>> THEN [w |-> w, count |-> count]
    ELSE IF (~IsDisabled(w, Head(mod_list))) # enable
    THEN ToggleAllLoop(ToggleMod(w, Head(mod_list), enable).w, count + 1,
                       Tail(mod_list), enable)
    ELSE ToggleAllLoop(w, count, Tail(mod_list), enable)

----------------------------------------------------------------------------
(* The state machine *)

\* the files and the store of the current state, as a world
World == [mods |-> mods, game |-> game, backups |-> backups,
          status |-> status, dirty |-> dirty]

NoPath == <<>>

Op(name, path, enable, ok, log) ==
    [op |-> name, path |-> path, enable |-> enable, ok |-> ok, log |-> log]

\* no launch in progress, no game process
\* (pc: where the launch stands; kind: "worker" for GameLauncherWorker.run,
\* "quick" for GameLauncher.quick_launch; status: the store of the loader the
\* launch built; synced, verified: sync and verify_enabled_mods returned in
\* this launch; started: game.start() was called in this launch; result: how
\* the launch ended; running: a game process exists; polls: how often
\* wait_for_game_closed has looked for the process; finished: how often the
\* worker of this launch has emitted finished_signal)
IdleLaunch ==
    [pc |-> "idle", kind |-> "none", status |-> <<>>, synced |-> FALSE,
     verified |-> FALSE, started |-> FALSE, result |-> "", running |-> FALSE,
     polls |-> 0, finished |-> 0]

\* the settings of a configured installation: the game executable is set,
\* the mods directory exists, non-permanent mode is off
DefaultSetup ==
    [game_exe_path |-> "game.exe", mods_dir_exists |-> TRUE,
     non_permanent_mode |-> FALSE]

\* the window as it is built: MainWindow.is_running is False (main_window.py
\* 31), no timer of launch_game is pending
IdleWindow == [is_running |-> FALSE, timer |-> FALSE]

\* the step to the world w, taken by the operation op of the view model's loader
Becomes(w, op) ==
    /\ mods' = w.mods
    /\ game' = w.game
    /\ backups' = w.backups
    /\ status' = w.status
    /\ dirty' = w.dirty
    /\ last' = op
    /\ UNCHANGED <<statusFile, launch, setup, ui>>

\* a fresh installation: the mods are in place, the game files are the
\* originals (or the game has no file with the mods' name at all), there is no
\* backup and no side-car, and MainViewModel has built its first loader
Init ==
    /\ mods = InstalledMods
    /\ game \in {[g \in GamePaths |-> "orig"], [g \in GamePaths |-> Absent]}
    /\ backups = NoBackups
    /\ statusFile = [exists |-> FALSE, data |-> <<>>]
    /\ status = Load(statusFile)
    /\ dirty = FALSE
    /\ envCount = 0
    /\ last = Op("init", NoPath, FALSE, TRUE, <<>>)
    /\ launch = IdleLaunch
    /\ setup = DefaultSetup
    /\ ui = IdleWindow

\* loader.toggle_mod(mod_path, enable) on the current loader
ToggleModAct(mod_path, enable) ==
    /\ mods[mod_path] # Absent
    /\ LET done == ToggleMod(World, mod_path, enable)
       IN Becomes(done.w, Op("toggle_mod", mod_path, enable, done.ok, done.log))
    /\ UNCHANGED envCount

\* loader.verify_enabled_mods() on the current loader
VerifyAct ==
    /\ LET done == VerifyEnabledMods(World)
       IN Becomes(done.w, Op("verify_enabled_mods", NoPath, FALSE, TRUE, done.log))
    /\ UNCHANGED envCount

\* loader.verify_enabled_mods() when the file of the enabled mod `failing`
\* cannot be read
VerifyRaisesAct(failing) ==
    /\ mods[failing] # Absent
    /\ GetStatus(status, failing)
    /\ LET done == VerifyEnabledModsRaising(World, failing)
       IN Becomes(done.w, Op("verify_raises", failing, FALSE, ~done.raised, done.log))
    /\ UNCHANGED envCount

\* loader.sync_mods() and the restore of its orphans on the current loader
SyncAct ==
    /\ LET done == SyncAndRestore(World)
       IN Becomes(done.w, Op("sync_mods", NoPath, FALSE, TRUE, <<>>))
    /\ UNCHANGED envCount

\* MainViewModel.load_mods(): the refresh of the user interface; without a
\* mods directory it stops after it has built the new loader
LoadModsAct ==
    /\ IF setup.mods_dir_exists
       THEN LET done == LoadMods(World, statusFile)
            IN Becomes(done.w, Op("load_mods", NoPath, FALSE, TRUE, <<>>))
       ELSE Becomes(CreateLoader(World, statusFile),
                    Op("load_mods", NoPath, FALSE, FALSE,
                       << <<NoPath, "Mods directory invalid.">> >>))
    /\ UNCHANGED envCount

\* MainViewModel.toggle_mod(mod_path, enable): toggle, then load_mods
VMToggleModAct(mod_path, enable) ==
    /\ mods[mod_path] # Absent
    /\ LET toggled == ToggleMod(World, mod_path, enable)
           done == LoadMods(toggled.w, statusFile)
       IN Becomes(done.w, Op("vm_toggle_mod", mod_path, enable, toggled.ok, toggled.log))
    /\ UNCHANGED envCount

\* MainViewModel.toggle_all_mods(enable): toggle every mod that is not yet in
\* that state, then load_mods if any was toggled
ToggleAllModsAct(enable) ==
    LET toggled == ToggleAllLoop(World, 0, GetModsList(World), enable)
    IN IF toggled.count > 0
       THEN /\ Becomes(LoadMods(toggled.w, statusFile).w,
                       Op("toggle_all_mods", NoPath, enable, TRUE, <<>>))
            /\ UNCHANGED envCount
       ELSE /\ Becomes(World, Op("toggle_all_mods", NoPath, enable, FALSE, <<>>))
            /\ UNCHANGED envCount

\* the user edits, adds or deletes a mod file
EnvSetMod(mod_path, content) ==
    /\ envCount < MaxEnv
    /\ content \in UserContents(mod_path)
    /\ content # mods[mod_path]
    /\ envCount' = envCount + 1
    /\ Becomes([World EXCEPT !.mods[mod_path] = content],
               Op("env_set_mod", mod_path, FALSE, TRUE, <<>>))

\* a game update rewrites a game file
EnvSetGame(game_file, content) ==
    /\ envCount < MaxEnv
    /\ game_file \in PatchedFiles
    /\ game[game_file] # Absent
    /\ content # game[game_file]
    /\ envCount' = envCount + 1
    /\ Becomes([World EXCEPT !.game[game_file] = content],
               Op("env_set_game", game_file, FALSE, TRUE, <<>>))

\* a game update removes a game file and leaves its folder
EnvRemoveGame(game_file) ==
    /\ envCount < MaxEnv
    /\ game[game_file] # Absent
    /\ envCount' = envCount + 1
    /\ Becomes([World EXCEPT !.game[game_file] = Absent],
               Op("env_remove_game", game_file, FALSE, TRUE, <<>>))

Next ==
    \/ \E m \in ModPaths, e \in BOOLEAN : ToggleModAct(m, e)
    \/ VerifyAct
    \/ SyncAct
    \/ LoadModsAct
    \/ \E m \in ModPaths, e \in BOOLEAN : VMToggleModAct(m, e)
    \/ \E e \in BOOLEAN : ToggleAllModsAct(e)
    \/ \E m \in ModPaths, c \in ModContents \cup {Absent} : EnvSetMod(m, c)
    \/ \E g \in GamePaths, c \in GameContents : EnvSetGame(g, c)

Spec == Init /\ [][Next]_vars

\* loader.install_mod() on the current loader
InstallModAct ==
    /\ Becomes(InstallMod(World), Op("install_mod", NoPath, FALSE, TRUE, <<>>))
    /\ UNCHANGED envCount

\* every operation that overlays game files, install_mod included
NextOverlay ==
    \/ Next
    \/ InstallModAct

SpecOverlay == Init /\ [][NextOverlay]_vars

\* the engine used through toggle_mod alone, on one loader, while the user
\* and the game update change files
NextToggle ==
    \/ \E m \in ModPaths, e \in BOOLEAN : ToggleModAct(m, e)
    \/ \E m \in ModPaths, c \in ModContents \cup {Absent} : EnvSetMod(m, c)
    \/ \E g \in GamePaths, c \in GameContents : EnvSetGame(g, c)

SpecToggle == Init /\ [][NextToggle]_vars

\* the engine used on one loader: toggle_mod, verify_enabled_mods and the
\* refresh, while the user and the game update change files
NextEngine ==
    \/ \E m \in ModPaths, e \in BOOLEAN : ToggleModAct(m, e)
    \/ VerifyAct
    \/ SyncAct
    \/ \E m \in ModPaths, c \in ModContents \cup {Absent} : EnvSetMod(m, c)
    \/ \E g \in GamePaths, c \in GameContents : EnvSetGame(g, c)
    \/ \E g \in GamePaths : EnvRemoveGame(g)
    \/ \E m \in ModPaths : VerifyRaisesAct(m)

SpecEngine == Init /\ [][NextEngine]_vars

\* the program as the user drives it: every step is a whole handler of
\* MainViewModel, or a change of the files from outside
NextShell ==
    \/ LoadModsAct
    \/ \E m \in ModPaths, e \in BOOLEAN : VMToggleModAct(m, e)
    \/ \E e \in BOOLEAN : ToggleAllModsAct(e)
    \/ \E m \in ModPaths, c \in ModContents \cup {Absent} : EnvSetMod(m, c)
    \/ \E g \in GamePaths, c \in GameContents : EnvSetGame(g, c)

SpecShell == Init /\ [][NextShell]_vars

\* the status store used on its own, from the empty store, in a mods
\* directory that also holds a mod of another name, a hidden file and a file
\* of another extension; the game has no file with the name of a mod, so
\* toggle_mod changes the store and no file
StoreInstalledMods ==
    [m \in StorePaths |-> IF m = ModB THEN "v2" ELSE "v1"]

\* what the user makes of the files: ModA is edited, deleted and put back,
\* ModB and ModY are deleted and put back, the other files stay
StoreUserContents(mod_path) ==
    IF mod_path = ModA THEN ModContents \cup {Absent}
    ELSE IF mod_path \in TrackedMods THEN {StoreInstalledMods[mod_path], Absent}
    ELSE {StoreInstalledMods[mod_path]}

StoreInit ==
    /\ mods = StoreInstalledMods
    /\ game = [g \in GamePaths |-> Absent]
    /\ backups = NoBackups
    /\ statusFile = [exists |-> FALSE, data |-> <<>>]
    /\ status = Load(statusFile)
    /\ dirty = FALSE
    /\ envCount = 0
    /\ last = Op("init", NoPath, FALSE, TRUE, <<>>)
    /\ launch = IdleLaunch
    /\ setup = DefaultSetup
    /\ ui = IdleWindow

\* status_manager.sync_with_files(); the orphaned entries it returns are kept
\* in last.log
SyncWithFilesAct ==
    /\ LET done == SyncWithFiles(World)
       IN Becomes(done.w, Op("sync_with_files", NoPath, FALSE, TRUE, done.orphaned))
    /\ UNCHANGED envCount

\* status_manager.set_status(file_path, enabled); a new entry needs the file
\* to be there for its hash
SetStatusAct(file_path, enabled) ==
    /\ HasEntry(status, file_path) \/ mods[file_path] # Absent
    /\ Becomes(SetStatus(World, file_path, enabled),
               Op("set_status", file_path, enabled, TRUE, <<>>))
    /\ UNCHANGED envCount

\* status_manager.set_applied_hash(file_path, applied_hash); it is called for
\* ModA, the mod whose content changes
SetAppliedHashAct(file_path, applied_hash) ==
    /\ Becomes(SetAppliedHash(World, file_path, applied_hash),
               Op("set_applied_hash", file_path, FALSE, TRUE, <<>>))
    /\ UNCHANGED envCount

\* the user edits, adds or deletes a file of the mods directory
EnvSetStoreFile(mod_path, content) ==
    /\ envCount < MaxEnv
    /\ content \in StoreUserContents(mod_path)
    /\ content # mods[mod_path]
    /\ envCount' = envCount + 1
    /\ Becomes([World EXCEPT !.mods[mod_path] = content],
               Op("env_set_mod", mod_path, FALSE, TRUE, <<>>))

NextStore ==
    \/ SyncWithFilesAct
    \/ \E m \in TrackedMods, e \in BOOLEAN : SetStatusAct(m, e)
    \/ mods[ModA] # Absent /\ SetAppliedHashAct(ModA, GetFileHash(mods[ModA]))
    \/ SetAppliedHashAct(ModA, NoHash)
    \/ \E m \in TrackedMods, e \in BOOLEAN : ToggleModAct(m, e)
    \/ \E m \in StorePaths, c \in ModContents \cup {Absent} : EnvSetStoreFile(m, c)

SpecStore == StoreInit /\ [][NextStore]_vars

----------------------------------------------------------------------------
(* The engine on game trees whose folder and file names have dots: one mod  *)
(* in the folder A of the mods directory, and one or two game files with    *)
(* the mod's file name.                                                     *)

\* the mod with that file name
TreeMod(name) == << <<"A">>, name >>

\* the name of a backup with the leading dot of the legacy backups
LegacyName(name) == <<"">> \o name

\* the game trees: one file, or two files of one name in different folders
Trees ==
    {{g} : g \in TreePaths}
    \cup {pair \in {{g, h} : g \in TreePaths, h \in TreePaths} :
              \A g \in pair, h \in pair : Name(g) = Name(h)}

\* the backups the mod can have for the files of the tree, under the name
\* _get_backup_path gives them and under the legacy name
TreeBackupPaths(mod_file, tree) ==
    {GetBackupPath(mod_file, g) : g \in tree}
    \cup {[dir |-> Parent(mod_file), name |-> LegacyName(GetBackupPath(mod_file, g).name)] :
              g \in tree}

\* a fresh installation on one of the trees; the two files of a tree differ
TreeInit ==
    \E tree \in Trees :
        LET first == CHOOSE g \in tree : TRUE
            mod_file == TreeMod(Name(first))
        IN /\ mods = [m \in {mod_file} |-> "v1"]
           /\ game = [g \in tree |-> IF g = first THEN "o1" ELSE "o2"]
           /\ backups = [b \in TreeBackupPaths(mod_file, tree) |-> Absent]
           /\ statusFile = [exists |-> FALSE, data |-> <<>>]
           /\ status = Load(statusFile)
           /\ dirty = FALSE
           /\ envCount = 0
           /\ last = Op("init", NoPath, FALSE, TRUE, <<>>)
           /\ launch = IdleLaunch
           /\ setup = DefaultSetup
           /\ ui = IdleWindow

\* loader.restore_all() on the current loader
RestoreAllAct ==
    /\ Becomes(RestoreAll(World), Op("restore_all", NoPath, FALSE, TRUE, <<>>))
    /\ UNCHANGED envCount

\* a backup is found under its legacy name, with a leading dot
LegacyBackup(backup) ==
    /\ envCount < MaxEnv
    /\ backups[backup] # Absent
    /\ backup.name[1] # ""
    /\ envCount' = envCount + 1
    /\ LET legacy == [backup EXCEPT !.name = LegacyName(@)]
       IN Becomes([World EXCEPT !.backups[backup] = Absent,
                                !.backups[legacy] = backups[backup]],
                  Op("env_legacy_backup", NoPath, FALSE, TRUE, <<>>))

\* the path of a backup file below the backups directory
BackupFile(backup) == Append(backup.dir, backup.name)

\* loader.restore_backup_file(backup) on a file of the backups directory
RestoreBackupFileAct(backup) ==
    /\ backups[backup] # Absent
    /\ LET done == RestoreBackupFile(World, backup)
       IN Becomes(done.w, Op("restore_backup_file", BackupFile(backup), FALSE,
                             TRUE, done.log))
    /\ UNCHANGED envCount

NextTree ==
    \/ \E m \in DOMAIN mods, e \in BOOLEAN : ToggleModAct(m, e)
    \/ RestoreAllAct
    \/ \E b \in DOMAIN backups : RestoreBackupFileAct(b)
    \/ \E b \in DOMAIN backups : LegacyBackup(b)
    \/ \E g \in DOMAIN game : EnvRemoveGame(g)

SpecTree == TreeInit /\ [][NextTree]_vars

----------------------------------------------------------------------------
(* The launch paths: GameLauncherWorker.run (the thread MainViewModel.      *)
(* launch_game starts) and GameLauncher.quick_launch.  Each builds a loader *)
(* of its own, whose store is read from the side-car.                       *)

\* the files, seen with the store of the launch's loader
LaunchWorld == [World EXCEPT !.status = launch.status, !.dirty = FALSE]

\* a step of the launch: the files become those of w, the launch becomes l
LaunchBecomes(w, l, name) ==
    /\ mods' = w.mods
    /\ game' = w.game
    /\ backups' = w.backups
    /\ launch' = [l EXCEPT !.status = w.status]
    /\ last' = Op(name, NoPath, FALSE, TRUE, <<>>)
    /\ UNCHANGED <<status, dirty, statusFile, envCount, setup, ui>>

\* the launch ends with that result
Ends(l, result) == [l EXCEPT !.pc = "done", !.result = result]

\* the worker emits finished_signal and returns with that result
Finishes(l, result) == [Ends(l, result) EXCEPT !.finished = @ + 1]

\* a launch as it begins: a new loader, nothing done yet
NewLaunch(kind) ==
    [IdleLaunch EXCEPT !.kind = kind, !.status = Load(statusFile),
                       !.running = launch.running]

\* WorkerBegin as it would be without the test game.is_running()
WorkerBeginNoCheck ==
    /\ launch.pc \in {"idle", "done"}
    /\ LET l == NewLaunch("worker")
       IN LaunchBecomes([LaunchWorld EXCEPT !.status = l.status],
                        [l EXCEPT !.pc = "sync"], "worker_begin")

\* GameLauncherWorker.run up to the test game.is_running() (workers.py 19-30)
WorkerBegin ==
    /\ launch.pc \in {"idle", "done"}
    /\ LET l == NewLaunch("worker")
       IN LaunchBecomes([LaunchWorld EXCEPT !.status = l.status],
                        IF launch.running THEN Finishes(l, "already running")
                        ELSE [l EXCEPT !.pc = "sync"],
                        "worker_begin")

\* WorkerSync as it would be if an error of the sync were logged and the
\* launch went on
WorkerSyncIgnoresError(raises) ==
    /\ launch.kind = "worker" /\ launch.pc = "sync"
    /\ IF raises
       THEN LaunchBecomes(LaunchWorld, [launch EXCEPT !.pc = "verify"], "worker_sync")
       ELSE LaunchBecomes(SyncAndRestore(LaunchWorld).w,
                          [launch EXCEPT !.pc = "verify", !.synced = TRUE],
                          "worker_sync")

\* sync_mods and restore_orphaned_backups of the worker (workers.py 33-40);
\* raises: some file operation of it raised
WorkerSync(raises) ==
    /\ launch.kind = "worker" /\ launch.pc = "sync"
    /\ IF raises
       THEN LaunchBecomes(LaunchWorld, Finishes(launch, "sync error"), "worker_sync")
       ELSE LaunchBecomes(SyncAndRestore(LaunchWorld).w,
                          [launch EXCEPT !.pc = "verify", !.synced = TRUE],
                          "worker_sync")

\* WorkerVerify as it would be if the handler of the error returned without
\* emitting finished_signal
WorkerVerifyNoSignal(raises) ==
    /\ launch.kind = "worker" /\ launch.pc = "verify"
    /\ IF raises
       THEN LaunchBecomes(LaunchWorld, Ends(launch, "verify error"), "worker_verify")
       ELSE LaunchBecomes(VerifyEnabledMods(LaunchWorld).w,
                          [launch EXCEPT !.pc = "start", !.verified = TRUE],
                          "worker_verify")

\* verify_enabled_mods of the worker (workers.py 43-48)
WorkerVerify(raises) ==
    /\ launch.kind = "worker" /\ launch.pc = "verify"
    /\ IF raises
       THEN LaunchBecomes(LaunchWorld, Finishes(launch, "verify error"), "worker_verify")
       ELSE LaunchBecomes(VerifyEnabledMods(LaunchWorld).w,
                          [launch EXCEPT !.pc = "start", !.verified = TRUE],
                          "worker_verify")

\* game.start() of the worker (workers.py 50-51); appears: the game process
\* comes up
WorkerStart(appears) ==
    /\ launch.kind = "worker" /\ launch.pc = "start"
    /\ LaunchBecomes(LaunchWorld,
                     [launch EXCEPT !.pc = "wait", !.started = TRUE,
                                    !.running = appears],
                     "game_start")

\* wait_for_game_closed (workers.py 53-59): no process seen within the
\* polling time, or the process seen has ended
WorkerWait ==
    /\ launch.kind = "worker" /\ launch.pc \in {"wait", "waiting"}
    /\ IF launch.pc = "wait"
       THEN LaunchBecomes(LaunchWorld,
                          IF launch.running THEN [launch EXCEPT !.pc = "waiting"]
                          ELSE Finishes(launch, "not detected"),
                          "worker_wait")
       ELSE /\ ~launch.running
            /\ LaunchBecomes(LaunchWorld, Finishes(launch, "closed"), "worker_wait")

\* the game process ends
GameExits ==
    /\ launch.running
    /\ LaunchBecomes(LaunchWorld, [launch EXCEPT !.running = FALSE], "game_exits")

\* quick_launch up to the creation of its loader (launcher.py 26-53);
\* exe_found: the configured game executable exists
QuickBegin(exe_found) ==
    /\ launch.pc \in {"idle", "done"}
    /\ LET l == NewLaunch("quick")
       IN LaunchBecomes([LaunchWorld EXCEPT !.status = l.status],
                        IF exe_found THEN [l EXCEPT !.pc = "sync"]
                        ELSE Ends(l, "game not found"),
                        "quick_begin")

\* the enabled mods of the list that have a conflict
ConflictingMods(w) ==
    SelectSeq(GetModsList(w), LAMBDA m :
        ~IsDisabled(w, m) /\ CheckDuplicateConflict(w, m) # <<>>)

\* QuickSync as it would be without the test for conflicts
QuickSyncNoConflictTest(raises) ==
    /\ launch.kind = "quick" /\ launch.pc = "sync"
    /\ IF raises
       THEN LaunchBecomes(LaunchWorld, Ends(launch, "verification error"), "quick_sync")
       ELSE LET synced == SyncWithFiles(LaunchWorld)
                l == [launch EXCEPT !.synced = TRUE]
            IN LaunchBecomes(synced.w,
                   IF synced.orphaned # <<>> THEN Ends(l, "orphaned mods")
                   ELSE [l EXCEPT !.pc = "verify"],
                   "quick_sync")

\* sync_mods and the tests on its result (launcher.py 56-72)
QuickSync(raises) ==
    /\ launch.kind = "quick" /\ launch.pc = "sync"
    /\ IF raises
       THEN LaunchBecomes(LaunchWorld, Ends(launch, "verification error"), "quick_sync")
       ELSE LET synced == SyncWithFiles(LaunchWorld)
                l == [launch EXCEPT !.synced = TRUE]
            IN LaunchBecomes(synced.w,
                   IF synced.orphaned # <<>> THEN Ends(l, "orphaned mods")
                   ELSE IF ConflictingMods(synced.w) # <<>> THEN Ends(l, "mod conflict")
                   ELSE [l EXCEPT !.pc = "verify"],
                   "quick_sync")

\* verify_enabled_mods of quick_launch (launcher.py 74-80)
QuickVerify(raises) ==
    /\ launch.kind = "quick" /\ launch.pc = "verify"
    /\ IF raises
       THEN LaunchBecomes(LaunchWorld, Ends(launch, "verification error"), "quick_verify")
       ELSE LaunchBecomes(VerifyEnabledMods(LaunchWorld).w,
                          [launch EXCEPT !.pc = "start", !.verified = TRUE],
                          "quick_verify")

\* game.start() of quick_launch and its return (launcher.py 83-92)
QuickStart(raises, appears) ==
    /\ launch.kind = "quick" /\ launch.pc = "start"
    /\ IF raises
       THEN LaunchBecomes(LaunchWorld, Ends(launch, "launch failed"), "game_start")
       ELSE LaunchBecomes(LaunchWorld,
                          [Ends(launch, "success") EXCEPT !.started = TRUE,
                                                          !.running = appears],
                          "game_start")

NextLaunch ==
    \/ WorkerBegin
    \/ \E raises \in BOOLEAN : WorkerSync(raises)
    \/ \E raises \in BOOLEAN : WorkerVerify(raises)
    \/ \E appears \in BOOLEAN : WorkerStart(appears)
    \/ WorkerWait
    \/ GameExits
    \/ \E exe_found \in BOOLEAN : QuickBegin(exe_found)
    \/ \E raises \in BOOLEAN : QuickSync(raises)
    \/ \E raises \in BOOLEAN : QuickVerify(raises)
    \/ \E raises, appears \in BOOLEAN : QuickStart(raises, appears)
    \/ \E m \in ModPaths, c \in ModContents \cup {Absent} : EnvSetMod(m, c)
    \/ \E g \in GamePaths, c \in GameContents : EnvSetGame(g, c)

SpecLaunch == Init /\ [][NextLaunch]_vars

----------------------------------------------------------------------------
(* MainWindow._on_toggle_clicked: the click on one mod of the tree *)

\* the loop over disable_conflicting_mod (main_viewmodel.py 88-93)
RECURSIVE DisableConflictingMods(_, _)
DisableConflictingMods(w, conflicts) ==
    IF conflicts = <<>> THEN w
    ELSE LET full_path == Head(conflicts).path
         IN DisableConflictingMods(
                IF full_path \in DOMAIN w.mods /\ w.mods[full_path] # Absent
                THEN ToggleMod(w, full_path, FALSE).w
                ELSE w,
                Tail(conflicts))

\* _on_toggle_clicked; confirms: the answer the user gives if the dialog is
\* shown: [w, ok, log, asked]
OnToggleClicked(w, file, mod_path, enable, confirms) ==
    LET conflicts == IF enable THEN CheckDuplicateConflict(w, mod_path) ELSE <<>>
        resolved == IF conflicts # <<>> THEN DisableConflictingMods(w, conflicts) ELSE w
        toggled == ToggleMod(resolved, mod_path, enable)
    IN IF conflicts # <<>> /\ ~confirms
       THEN [w |-> w, ok |-> FALSE, log |-> <<>>, asked |-> TRUE]
       ELSE [w |-> LoadMods(toggled.w, file).w, ok |-> toggled.ok,
             log |-> toggled.log, asked |-> conflicts # <<>>]

\* a click on a mod of the tree and the user's answer
OnToggleClickedAct(mod_path, enable, confirms) ==
    /\ mods[mod_path] # Absent
    /\ LET done == OnToggleClicked(World, statusFile, mod_path, enable, confirms)
       IN Becomes(done.w,
                  Op(IF done.asked THEN "on_toggle_clicked_asked" ELSE "on_toggle_clicked",
                     mod_path, enable, done.ok, done.log))
    /\ UNCHANGED envCount

NextClick ==
    \/ \E m \in ModPaths, e \in BOOLEAN, confirms \in BOOLEAN :
           OnToggleClickedAct(m, e, confirms)
    \/ \E m \in ModPaths, c \in ModContents \cup {Absent} : EnvSetMod(m, c)
    \/ \E g \in GamePaths, c \in GameContents : EnvSetGame(g, c)

SpecClick == Init /\ [][NextClick]_vars

----------------------------------------------------------------------------
(* quick_launch on an installation that has a side-car: ModsStatus.json was *)
(* put next to the program (the program itself reads it and never writes    *)
(* it), and the files are as the engine leaves them after enabling the      *)
(* mods it records, in their order.                                         *)

\* the record of an enabled, applied mod
AppliedEntry(mod_path) ==
    Entry(GetRelativePath(mod_path), GetFileHash(InstalledMods[mod_path]),
          GetFileHash(InstalledMods[mod_path]), TRUE)

\* the side-cars: none, one enabled mod, two enabled mods of one file name
SideCars ==
    {[exists |-> FALSE, data |-> <<>>],
     [exists |-> TRUE, data |-> <<AppliedEntry(ModA)>>],
     [exists |-> TRUE, data |-> <<AppliedEntry(ModA), AppliedEntry(ModB)>>]}

\* the mod whose content the game files hold: the last enabled one
LastApplied(file) == file.data[Len(file.data)].path

QuickInit ==
    /\ statusFile \in SideCars
    /\ mods = InstalledMods
    /\ game = [g \in GamePaths |->
                  IF statusFile.exists THEN InstalledMods[LastApplied(statusFile)]
                  ELSE "orig"]
    /\ backups = [b \in BackupPaths |->
                     IF ~statusFile.exists THEN Absent
                     ELSE IF b.dir = Parent(statusFile.data[1].path) THEN "orig"
                     ELSE IF b.dir = Parent(LastApplied(statusFile))
                     THEN InstalledMods[statusFile.data[1].path]
                     ELSE Absent]
    /\ status = Load(statusFile)
    /\ dirty = FALSE
    /\ envCount = 0
    /\ last = Op("init", NoPath, FALSE, TRUE, <<>>)
    /\ launch = IdleLaunch
    /\ setup = DefaultSetup
    /\ ui = IdleWindow

NextQuick ==
    \/ \E exe_found \in BOOLEAN : QuickBegin(exe_found)
    \/ \E raises \in BOOLEAN : QuickSync(raises)
    \/ \E raises \in BOOLEAN : QuickVerify(raises)
    \/ \E raises, appears \in BOOLEAN : QuickStart(raises, appears)
    \/ GameExits
    \/ \E m \in ModPaths, c \in ModContents \cup {Absent} : EnvSetMod(m, c)
    \/ \E g \in GamePaths, c \in GameContents : EnvSetGame(g, c)

SpecQuick == QuickInit /\ [][NextQuick]_vars

----------------------------------------------------------------------------
(* StellaSoraGame.wait_for_game_closed, poll by poll, after game.start()    *)

\* range(30) of wait_for_game_closed
MaxPolls == 30

\* game.start() has returned; the process may be up already
WaitInit ==
    /\ mods = InstalledMods
    /\ game = [g \in GamePaths |-> "orig"]
    /\ backups = NoBackups
    /\ statusFile = [exists |-> FALSE, data |-> <<>>]
    /\ status = Load(statusFile)
    /\ dirty = FALSE
    /\ envCount = 0
    /\ last = Op("init", NoPath, FALSE, TRUE, <<>>)
    /\ \E appears \in BOOLEAN :
           launch = [IdleLaunch EXCEPT !.kind = "wait", !.pc = "poll",
                                       !.started = TRUE, !.running = appears]
    /\ setup = DefaultSetup
    /\ ui = IdleWindow

\* a step of the wait: only the launch changes
WaitBecomes(l, name) ==
    /\ launch' = l
    /\ last' = Op(name, NoPath, FALSE, TRUE, <<>>)
    /\ UNCHANGED <<mods, game, backups, status, dirty, statusFile, envCount,
                   setup, ui>>

\* one turn of the discovery loop (core.py 618-622): get_process, and a
\* sleep when there is none
WaitPoll ==
    /\ launch.kind = "wait" /\ launch.pc = "poll"
    /\ launch.polls < MaxPolls
    /\ WaitBecomes([launch EXCEPT !.polls = @ + 1,
                                  !.pc = IF launch.running THEN "proc_wait" ELSE "poll"],
                   "wait_poll")

\* the discovery loop is used up (core.py 624-625): return False
WaitGivesUp ==
    /\ launch.kind = "wait" /\ launch.pc = "poll"
    /\ launch.polls = MaxPolls
    /\ WaitBecomes(Ends(launch, "not detected"), "wait_gives_up")

\* proc.wait() returns (core.py 627-630): the process found has ended
WaitProcEnds ==
    /\ launch.kind = "wait" /\ launch.pc = "proc_wait"
    /\ ~launch.running
    /\ WaitBecomes([launch EXCEPT !.pc = "double_check"], "wait_proc_ends")

\* the double check as it would be without its loop
WaitDoubleCheckOnce ==
    /\ launch.kind = "wait" /\ launch.pc = "double_check"
    /\ WaitBecomes(Ends(launch, "closed"), "wait_double_check")

\* one turn of the double check (core.py 633-636): sleep while a process of
\* the game's name runs, else return True
WaitDoubleCheck ==
    /\ launch.kind = "wait" /\ launch.pc = "double_check"
    /\ WaitBecomes(IF launch.running THEN launch ELSE Ends(launch, "closed"),
                   "wait_double_check")

\* a process with the name of the game executable comes up
GameAppears ==
    /\ ~launch.running
    /\ WaitBecomes([launch EXCEPT !.running = TRUE], "game_appears")

\* the process ends
GameDisappears ==
    /\ launch.running
    /\ WaitBecomes([launch EXCEPT !.running = FALSE], "game_disappears")

NextWait ==
    \/ WaitPoll
    \/ WaitGivesUp
    \/ WaitProcEnds
    \/ WaitDoubleCheck
    \/ GameAppears
    \/ GameDisappears

SpecWait == WaitInit /\ [][NextWait]_vars

\* the thread that waits keeps running; the game comes and goes as it likes
SpecWaitFair ==
    /\ SpecWait
    /\ WF_vars(WaitPoll)
    /\ WF_vars(WaitGivesUp)
    /\ WF_vars(WaitProcEnds)
    /\ WF_vars(WaitDoubleCheck)

----------------------------------------------------------------------------
(* The session: the main window, its view model and the worker thread that  *)
(* launch_game starts.  The model follows one worker thread at a time.      *)

\* the settings a session can start with
Setups ==
    {[DefaultSetup EXCEPT !.game_exe_path = exe, !.non_permanent_mode = mode] :
        exe \in {"", "game.exe"}, mode \in BOOLEAN}

\* the window is built and has done its first load_mods (main_window.py 47);
\* without a game executable the loader's game folder has no game file
SessionInit ==
    /\ setup \in Setups
    /\ mods = InstalledMods
    /\ game = [g \in GamePaths |-> IF setup.game_exe_path = "" THEN Absent ELSE "orig"]
    /\ backups = NoBackups
    /\ statusFile = [exists |-> FALSE, data |-> <<>>]
    /\ LET loaded == LoadMods([mods |-> mods, game |-> game, backups |-> backups,
                               status |-> <<>>, dirty |-> FALSE], statusFile).w
       IN status = loaded.status /\ dirty = loaded.dirty
    /\ envCount = 0
    /\ last = Op("init", NoPath, FALSE, TRUE, <<>>)
    /\ launch = IdleLaunch
    /\ ui = IdleWindow

\* a click on the launch button: MainViewModel.launch_game, and the start of
\* GameLauncherWorker.run up to its test game.is_running() (workers.py 19-30)
LaunchGameAct ==
    /\ ~ui.is_running
    /\ launch.pc = "idle"
    /\ IF setup.game_exe_path = ""
       THEN /\ last' = Op("launch_game", NoPath, FALSE, FALSE,
                          << <<NoPath, "Error: Game executable path not set!">> >>)
            /\ UNCHANGED <<launch, ui>>
       ELSE /\ launch' = IF launch.running
                         THEN Finishes(NewLaunch("worker"), "already running")
                         ELSE [NewLaunch("worker") EXCEPT !.pc = "sync"]
            /\ ui' = [ui EXCEPT !.timer = TRUE]
            /\ last' = Op("launch_game", NoPath, FALSE, TRUE, <<>>)
    /\ UNCHANGED <<mods, game, backups, status, dirty, statusFile, envCount, setup>>

\* the single-shot timer of launch_game fires: game_status_changed(True)
\* reaches MainWindow._on_game_status_changed
TimerFires ==
    /\ ui.timer
    /\ ui' = [is_running |-> TRUE, timer |-> FALSE]
    /\ last' = Op("timer", NoPath, FALSE, TRUE, <<>>)
    /\ UNCHANGED <<mods, game, backups, status, dirty, statusFile, envCount,
                   launch, setup>>

\* the finished signal of the worker reaches MainViewModel.on_game_finished:
\* game_status_changed(False); the thread is over
OnGameFinished ==
    /\ launch.kind = "worker" /\ launch.pc = "done"
    /\ ui' = [ui EXCEPT !.is_running = FALSE]
    /\ launch' = [launch EXCEPT !.pc = "idle"]
    /\ last' = Op("on_game_finished", NoPath, FALSE, TRUE, <<>>)
    /\ UNCHANGED <<mods, game, backups, status, dirty, statusFile, envCount, setup>>

\* a click on a mod of the tree, which is enabled while the flag is off
UIToggleModAct(mod_path, enable) ==
    /\ ~ui.is_running
    /\ VMToggleModAct(mod_path, enable)

\* a click on the enable-all or disable-all button
UIToggleAllModsAct(enable) ==
    /\ ~ui.is_running
    /\ ToggleAllModsAct(enable)

\* MainWindow._on_files_changed: the file watcher refreshes the list
OnFilesChanged ==
    /\ ~ui.is_running
    /\ LoadModsAct

\* the mods directory is removed with everything in it
EnvRemoveModsDir ==
    /\ envCount < MaxEnv
    /\ setup.mods_dir_exists
    /\ envCount' = envCount + 1
    /\ setup' = [setup EXCEPT !.mods_dir_exists = FALSE]
    /\ mods' = [m \in DOMAIN mods |-> Absent]
    /\ last' = Op("env_remove_mods_dir", NoPath, FALSE, TRUE, <<>>)
    /\ UNCHANGED <<game, backups, status, dirty, statusFile, launch, ui>>

NextSession ==
    \/ LaunchGameAct
    \/ TimerFires
    \/ OnGameFinished
    \/ \E raises \in BOOLEAN : WorkerSync(raises)
    \/ \E raises \in BOOLEAN : WorkerVerify(raises)
    \/ \E appears \in BOOLEAN : WorkerStart(appears)
    \/ WorkerWait
    \/ GameExits
    \/ \E m \in ModPaths, e \in BOOLEAN : UIToggleModAct(m, e)
    \/ \E e \in BOOLEAN : UIToggleAllModsAct(e)
    \/ OnFilesChanged
    \/ EnvRemoveModsDir

SpecSession == SessionInit /\ [][NextSession]_vars

\* the worker thread and the event loop of the window keep running; the
\* user need not click, and the game need not end
SpecSessionFair ==
    /\ SpecSession
    /\ WF_vars(\E raises \in BOOLEAN : WorkerSync(raises))
    /\ WF_vars(\E raises \in BOOLEAN : WorkerVerify(raises))
    /\ WF_vars(\E appears \in BOOLEAN : WorkerStart(appears))
    /\ WF_vars(WorkerWait)
    /\ WF_vars(TimerFires)
    /\ WF_vars(OnGameFinished)

----------------------------------------------------------------------------
(* Properties.  A property of one call is stated on the step that makes    *)
(* the call: the unprimed variables are the state before it, the primed    *)
(* ones the state after it.  A property of two calls in a row is stated on *)
(* the step of the first call and on what the operator of the second call  *)
(* makes of the state after it.                                            *)

\* the step is the call loader.toggle_mod(mod_path, enable)
ToggleStep(mod_path, enable) ==
    /\ last'.op = "toggle_mod"
    /\ last'.path = mod_path
    /\ last'.enable = enable

\* the existing game files with the mod's file name
Targets(w, mod_path) ==
    {g \in GamePaths : w.game[g] # Absent /\ Name(g) = Name(mod_path)}

Logged(game_file, line) == \E i \in 1..Len(last.log) : last.log[i] = <<game_file, line>>

NoBackupFor(w, mod_path) ==
    \A g \in GamePaths : w.backups[GetBackupPath(mod_path, g)] = Absent

AllLogged(log, line) == \A i \in 1..Len(log) : log[i][2] = line

C3_ApplyIdempotent ==
    [][\A m \in ModPaths :
        /\ (ToggleStep(m, TRUE) /\ last'.ok)
           => LET again == ApplyMod(World', m)
              IN /\ again.ok
                 /\ Len(again.log) = Cardinality(Targets(World', m))
                 /\ AllLogged(again.log, "already applied")
                 /\ again.w.game = game'
                 /\ again.w.backups = backups'
                 /\ again.w.status = status'
        /\ ( /\ last.op = "toggle_mod" /\ last.path = m /\ last.enable /\ last.ok
             /\ ToggleStep(m, TRUE) )
           => /\ last'.ok
              /\ AllLogged(last'.log, "already applied")
              /\ UNCHANGED <<game, backups, status>>]_vars

\* C3 witness: ModA has just been applied for the first time, and applying it
\* again finds both game files already applied
C3_Witness ==
    /\ last.op = "toggle_mod" /\ last.path = ModA /\ last.enable /\ last.ok
    /\ Logged(GameF1, "backed up & applied")
    /\ ApplyMod(World, ModA).log =
           << <<GameF1, "already applied">>, <<GameF2, "already applied">> >>

C6_OrphanSafety ==
    [][\A m \in ModPaths, g \in GamePaths :
        ( /\ last.op = "env_set_mod" /\ last.path = m
          /\ mods[m] = Absent
          /\ last'.op = "load_mods"
          /\ g \in Targets(World, m)
          /\ backups[GetBackupPath(m, g)] # Absent )
        => /\ game'[g] = backups[GetBackupPath(m, g)]
           /\ backups'[GetBackupPath(m, g)] = Absent
           /\ ~HasEntry(status', m)]_vars

C9_EnabledStatePersists ==
    (last.op = "vm_toggle_mod" /\ last.ok)
    => /\ GetStatus(status, last.path) = last.enable
       /\ AppliedHashOf(status, last.path) =
              IF last.enable THEN GetFileHash(mods[last.path]) ELSE NoHash

\* C10: Originals can be restored with conflicting mods.  After any sequence
\* of toggles on the two mods of one name, with no change from outside, that
\* ends with both mods disabled, every game file holds its original content
\* and no backup remains.
C10_OriginalsRestored ==
    (envCount = 0 /\ \A m \in ModPaths : IsDisabled(World, m))
    => /\ \A g \in GamePaths : game[g] \in {"orig", Absent}
       /\ backups = NoBackups

\* C11: Invariant of the status store.  Between operations, in every state
\* reached from the empty store by sync, toggle and verify (and by the view
\* model's handlers built from them), every record that is not enabled has an
\* empty appliedHash.
C11_DisabledHasNoAppliedHash ==
    \A i \in 1..Len(status) :
        ~status[i].enabled => status[i].applied_hash = NoHash

\* C11 witness: ModA, which was applied, has just been disabled and its
\* appliedHash is cleared, while ModB is enabled and keeps its appliedHash
C11_Witness ==
    /\ last.op = "toggle_mod" /\ last.path = ModA /\ ~last.enable
    /\ Logged(GameF1, "restored")
    /\ HasEntry(status, ModA)
    /\ ~GetEntry(status, ModA).enabled
    /\ GetEntry(status, ModA).applied_hash = NoHash
    /\ GetStatus(status, ModB)
    /\ AppliedHashOf(status, ModB) = GetFileHash(mods[ModB])

\* the set of the elements of a sequence
Range(seq) == {seq[i] : i \in 1..Len(seq)}

\* C12: Conflict detection.  check_duplicate_conflict(M) returns, each once,
\* exactly the records other than M's that are enabled and whose file name is
\* M's; so when ModA and ModB (both x.unity3d) are enabled each query returns
\* the other's record alone, and right after one of them is disabled the query
\* for the one that stays is empty.
C12_ConflictDetection ==
    [][/\ \A m \in TrackedMods :
            LET found == CheckDuplicateConflict(World', m)
            IN /\ Range(found) = {e \in Range(status') :
                                     e.enabled /\ e.path # m /\ Name(e.path) = Name(m)}
               /\ Len(found) = Cardinality(Range(found))
       /\ (GetStatus(status', ModA) /\ GetStatus(status', ModB))
           => /\ CheckDuplicateConflict(World', ModA) = <<GetEntry(status', ModB)>>
              /\ CheckDuplicateConflict(World', ModB) = <<GetEntry(status', ModA)>>
       /\ \A m \in ModPaths : \A other \in ModPaths \ {m} :
            ( /\ GetStatus(status, ModA) /\ GetStatus(status, ModB)
              /\ last'.op \in {"toggle_mod", "set_status"}
              /\ last'.path = m /\ ~last'.enable )
            => CheckDuplicateConflict(World', other) = <<>>]_vars

\* C12 witness: ModB has just been disabled while ModA and ModY, a mod of
\* another name, stay enabled, and the query for ModA is empty
C12_Witness ==
    /\ last.op = "toggle_mod" /\ last.path = ModB /\ ~last.enable
    /\ GetStatus(status, ModA)
    /\ GetStatus(status, ModY)
    /\ HasEntry(status, ModB) /\ ~GetStatus(status, ModB)
    /\ CheckDuplicateConflict(World, ModA) = <<>>
    /\ CheckDuplicateConflict(World, ModB) = <<GetEntry(status, ModA)>>

\* the mods on disk whose record is enabled
EnabledMods(w) == {m \in ModPaths : w.mods[m] # Absent /\ GetStatus(w.status, m)}

\* some existing game file with the mod's name does not hold the mod's content
Mismatch(w, mod_path) == \E g \in Targets(w, mod_path) : w.game[g] # w.mods[mod_path]

\* C13: Self-healing verify.  On every verify_enabled_mods step: the record
\* and the backups of a mod that is not enabled are left alone and nothing at
\* all changes when no mod is enabled; the first enabled mod is re-applied
\* exactly when one of its game files differs from it; and when no two
\* enabled records share a file name, afterwards every game file with the
\* name of an enabled mod holds that mod's content and the mod's appliedHash
\* is the hash of its content.
C13_VerifyHeals ==
    [][last'.op = "verify_enabled_mods" =>
        /\ \A m \in ModPaths \ EnabledMods(World) :
               /\ HasEntry(status', m) = HasEntry(status, m)
               /\ HasEntry(status, m) => GetEntry(status', m) = GetEntry(status, m)
               /\ \A g \in GamePaths :
                      backups'[GetBackupPath(m, g)] = backups[GetBackupPath(m, g)]
        /\ EnabledMods(World) = {} => UNCHANGED <<game, backups, status, mods>>
        /\ EnabledMods(World') = EnabledMods(World)
        /\ \A m \in EnabledMods(World) :
               (\A other \in EnabledMods(World) \ {m} : InSeq(m, <<ModA>>))
               => IF Mismatch(World, m)
                  THEN \A g \in Targets(World, m) :
                           \E i \in 1..Len(last'.log) :
                               /\ last'.log[i][1] = g
                               /\ last'.log[i][2] =
                                      ApplyCase(World, m, g, GetFileHash(mods[m]),
                                                AppliedHashOf(status, m))
                  ELSE \E i \in 1..Len(last'.log) : last'.log[i] = <<m, "Verified">>
        /\ (\A i, j \in 1..Len(status) :
                (status[i].enabled /\ status[j].enabled
                 /\ Name(status[i].path) = Name(status[j].path)) => i = j)
           => \A m \in EnabledMods(World') :
                  /\ \A g \in Targets(World', m) : game'[g] = mods'[m]
                  /\ AppliedHashOf(status', m) = GetFileHash(mods'[m])]_vars

\* C13 witness: verify has just re-applied ModA, the only enabled mod, over
\* the game file that a game update had rewritten
C13_Witness ==
    /\ last.op = "verify_enabled_mods"
    /\ Logged(GameF1, "re-backed up & applied")
    /\ EnabledMods(World) = {ModA}
    /\ ~GetStatus(status, ModB)
    /\ game[GameF1] = mods[ModA]
    /\ backups[GetBackupPath(ModA, GameF1)] = "patch"
    /\ AppliedHashOf(status, ModA) = GetFileHash(mods[ModA])

\* the results of a launch that ended before game.start()
AbortedResults ==
    {"already running", "sync error", "verify error", "game not found",
     "verification error", "orphaned mods", "mod conflict", "launch failed"}

\* C14: Verify precedes launch.  On both launch paths game.start() is called
\* only in a launch whose sync and whose verify_enabled_mods have returned
\* before it; a launch in which one of them raised, or that ended for another
\* reason before the start, has not started the game.
C14_VerifyPrecedesLaunch ==
    [][/\ (launch'.started /\ ~launch.started)
           => /\ last'.op = "game_start"
              /\ launch.pc = "start"
              /\ launch.synced /\ launch.verified
              /\ launch'.kind = launch.kind
       /\ launch'.started => (launch'.synced /\ launch'.verified)
       /\ launch'.result \in AbortedResults => ~launch'.started
       /\ (launch.pc \in {"sync", "verify"} /\ launch'.pc = "done")
           => ~launch'.started]_vars

\* C14 witness: the worker has started the game after its sync and its verify
C14_Witness ==
    /\ last.op = "game_start"
    /\ launch.kind = "worker" /\ launch.pc = "wait"
    /\ launch.started /\ launch.synced /\ launch.verified

\* the step is the call status_manager.sync_with_files()
SyncStep == last'.op = "sync_with_files"

\* the paths of the records of a store
RecordPaths(data) == {data[i].path : i \in 1..Len(data)}

\* C15: Result of sync.  After sync_with_files there is exactly one record
\* for each file on disk that has the mod extension and is not hidden, and no
\* other record; a file seen for the first time gets a record with enabled =
\* false and appliedHash = ""; the returned list holds, each once, exactly the
\* records that were enabled and whose file is absent; a disabled record of an
\* absent file is removed and not returned.
C15_SyncResult ==
    [][SyncStep =>
        /\ RecordPaths(status') =
               {m \in StorePaths \ {ModHidden, ModTxt} : mods[m] # Absent}
        /\ Len(status') = Cardinality(RecordPaths(status'))
        /\ \A m \in RecordPaths(status') \ RecordPaths(status) :
               GetEntry(status', m) = Entry(m, GetFileHash(mods[m]), NoHash, FALSE)
        /\ Range(last'.log) =
               {e \in Range(status) : e.enabled /\ mods[e.path] = Absent}
        /\ Len(last'.log) = Cardinality(Range(last'.log))
        /\ \A e \in Range(status) :
               (~e.enabled /\ mods[e.path] = Absent)
               => (e.path \notin RecordPaths(status') /\ e \notin Range(last'.log))]_vars

\* C15 witness: sync has just returned the enabled record of the deleted ModB
\* and removed it, ModY has a record, and the hidden file and the file of
\* another extension are on disk without a record
C15_Witness ==
    /\ last.op = "sync_with_files"
    /\ Len(last.log) = 1 /\ last.log[1].path = ModB /\ last.log[1].enabled
    /\ mods[ModB] = Absent /\ ~HasEntry(status, ModB)
    /\ HasEntry(status, ModY)
    /\ mods[ModHidden] # Absent /\ ~HasEntry(status, ModHidden)
    /\ mods[ModTxt] # Absent /\ ~HasEntry(status, ModTxt)

\* C16: Frame of sync on a content change.  For a record whose file is on
\* disk with bytes of another hash, sync_with_files sets the record's hash to
\* the hash of the bytes and leaves its enabled flag and its appliedHash as
\* they were; no game file, no backup and no mod file changes.
C16_SyncContentChangeFrame ==
    [][SyncStep =>
        /\ \A m \in StorePaths :
               ( /\ HasEntry(status, m)
                 /\ mods[m] # Absent
                 /\ GetEntry(status, m).hash # GetFileHash(mods[m]) )
               => /\ HasEntry(status', m)
                  /\ GetEntry(status', m).hash = GetFileHash(mods[m])
                  /\ GetEntry(status', m).enabled = GetEntry(status, m).enabled
                  /\ GetEntry(status', m).applied_hash = GetEntry(status, m).applied_hash
        /\ UNCHANGED <<game, backups, mods>>]_vars

\* C16 witness: sync has just taken up the new content v2 of ModA, whose
\* record is still enabled with the appliedHash of v1
C16_Witness ==
    /\ last.op = "sync_with_files"
    /\ mods[ModA] = "v2"
    /\ HasEntry(status, ModA)
    /\ GetEntry(status, ModA) = Entry(ModA, GetFileHash("v2"), GetFileHash("v1"), TRUE)

\* C17: Idempotence of sync.  A second sync_with_files on an unchanged mods
\* directory returns no orphan and leaves the list of records as the first
\* call left it; this is so of the second call computed on the state after
\* the first and of a second call made as the next step.
C17_SyncIdempotent ==
    [][/\ SyncStep
           => LET again == SyncWithFiles(World')
              IN /\ again.orphaned = <<>>
                 /\ again.w.status = status'
       /\ (last.op = "sync_with_files" /\ SyncStep)
           => /\ last'.log = <<>>
              /\ status' = status]_vars

\* C17 witness: the sync just made returned an orphan and changed a hash, and
\* a second one would return none
C17_Witness ==
    /\ last.op = "sync_with_files"
    /\ last.log # <<>>
    /\ Len(status) >= 2
    /\ SyncWithFiles(World).orphaned = <<>>
    /\ SyncWithFiles(World).w.status = status

\* C18: Uniqueness of keys.  In every state reached from the empty store by
\* sync_with_files, set_status, set_applied_hash and toggle_mod no two
\* records have the same path.
C18_UniquePaths ==
    \A i, j \in 1..Len(status) : status[i].path = status[j].path => i = j

\* C18 witness: set_status has just enabled ModB, which had a record, in a
\* store with a record for each of the three mods
C18_Witness ==
    /\ last.op = "set_status" /\ last.path = ModB /\ last.enable
    /\ Len(status) = 3
    /\ RecordPaths(status) = TrackedMods
    /\ GetEntry(status, ModB).enabled

\* the existing files of the game tree with the mod's file name
TreeTargets(w, mod_path) ==
    {g \in DOMAIN w.game : w.game[g] # Absent /\ Name(g) = Name(mod_path)}

\* C19: Multi-target overlay.  When a mod is enabled with no backup in the
\* vault and two game files in different folders have its name, both files
\* hold the mod afterwards, the two files have different backup paths, each
\* backup holds what its own file held before, and unapply gives each file
\* its own old content.
C19_MultiTargetOverlay ==
    [][\A m \in DOMAIN mods :
        ( /\ ToggleStep(m, TRUE) /\ last'.ok
          /\ \A b \in DOMAIN backups : backups[b] = Absent
          /\ Cardinality(TreeTargets(World, m)) >= 2 )
        => /\ \A g \in TreeTargets(World, m) :
                  /\ game'[g] = mods[m]
                  /\ backups'[GetBackupPath(m, g)] = game[g]
                  /\ UnapplyMod(World', m).w.game[g] = game[g]
           /\ \A g, h \in TreeTargets(World, m) :
                  g # h => GetBackupPath(m, g) # GetBackupPath(m, h)]_vars

\* C20: Backup filename round trip.  For every game file G of the tree, the
\* target restore_backup_file rebuilds from the name _get_backup_path gives
\* G's backup is G, and so is the target rebuilt from that name with a
\* leading dot.
C20_BackupNameRoundTrip ==
    \A m \in DOMAIN mods, g \in DOMAIN game :
        /\ RestoreTarget(GetBackupPath(m, g).name) = g
        /\ RestoreTarget(LegacyName(GetBackupPath(m, g).name)) = g

----------------------------------------------------------------------------
(* Restore of one backup *)

\* the step is restore_backup_file(backup)
RestoreStep(backup) ==
    /\ last'.op = "restore_backup_file"
    /\ last'.path = BackupFile(backup)

\* C21: Restore of one backup.  When the name of the backup gives a target,
\* and the target or its parent folder exists, restore_backup_file leaves the
\* backup's content in the target and no backup file; when neither exists,
\* the game tree and the backup are as before.
C21_RestoreOneBackup ==
    [][\A b \in DOMAIN backups :
        (RestoreStep(b) /\ RestoreTarget(b.name) # <<>>)
        => LET target_path == RestoreTarget(b.name)
           IN IF TargetExists(World, target_path) \/ ParentExists(World, target_path)
              THEN /\ target_path \in DOMAIN game'
                   /\ game'[target_path] = backups[b]
                   /\ backups'[b] = Absent
              ELSE /\ game' = game
                   /\ backups' = backups]_vars

\* a backup was restored onto its target, an original of the tree
C21_Witness ==
    /\ last.op = "restore_backup_file"
    /\ last.log # <<>>
    /\ \E g \in DOMAIN game :
           /\ last.log[1] = <<g, "Restored">>
           /\ game[g] \in {"o1", "o2"}

\* C22: No silent outcome in restore.  Every restore_backup_file step logs a
\* line, also when the name of the backup does not split in two or the
\* target has no folder; a backup whose name does not split in two changes
\* no file.
C22_NoSilentRestore ==
    [][\A b \in DOMAIN backups :
        RestoreStep(b)
        => /\ last'.log # <<>>
           /\ RestoreTarget(b.name) = <<>>
                  => (game' = game /\ backups' = backups)]_vars

----------------------------------------------------------------------------
(* A mod whose file name matches no game file *)

\* the lines the step logged for the mod
LinesFor(log, mod_path) ==
    {log[i][2] : i \in {j \in 1..Len(log) : log[j][1] = mod_path}}

\* C23: A missing target is never silently skipped.  When toggle_mod enables
\* a mod whose file name no game file has, the call fails and logs the
\* failure for the mod; when verify_enabled_mods meets an enabled mod whose
\* file name no game file has, it logs the failure for the mod and does not
\* log it as verified.
C23_MissingTargetReported ==
    [][\A m \in ModPaths :
        /\ (ToggleStep(m, TRUE) /\ Targets(World, m) = {})
               => /\ ~last'.ok
                  /\ LinesFor(last'.log, m) = {"no game files found"}
        /\ ( /\ last'.op = "verify_enabled_mods"
             /\ m \in EnabledMods(World)
             /\ Targets(World, m) = {} )
               => /\ "no game files found" \in LinesFor(last'.log, m)
                  /\ "Verified" \notin LinesFor(last'.log, m)]_vars

----------------------------------------------------------------------------
(* Failures inside a batch *)

\* the log has a line of verify for the mod: verified, not found, or a line
\* of apply for a game file of its name
Processed(log, w, mod_path) ==
    \/ LinesFor(log, mod_path) # {}
    \/ \E g \in Targets(w, mod_path) : LinesFor(log, g) # {}

\* C24: Batch isolation.  When verify_enabled_mods cannot read the file of
\* one enabled mod, every other enabled mod is still processed.
C24_BatchIsolation ==
    [][\A failing \in ModPaths :
        (last'.op = "verify_raises" /\ last'.path = failing)
        => \A m \in EnabledMods(World) \ {failing} :
               Processed(last'.log, World, m)]_vars

----------------------------------------------------------------------------
(* The session *)

\* the contents a backup can hold
BackupContents == ModContents \cup GameContents \cup {"orig"}

\* the worker has just found that the game was closed
GameClosedSignalled ==
    /\ last.op = "worker_wait"
    /\ launch.pc = "done"
    /\ launch.result = "closed"

\* C25: Non-permanent mode.  When the setting is on and the worker has found
\* the game closed, every game file that has a backup at that moment
\* eventually holds the content of that backup.
C25_NonPermanentRestore ==
    \A m \in ModPaths, g \in GamePaths, c \in BackupContents :
        ( /\ setup.non_permanent_mode
          /\ GameClosedSignalled
          /\ backups[GetBackupPath(m, g)] = c )
        ~> (game[g] = c)

\* a worker thread started by launch_game has not yet seen its finished
\* signal delivered
WorkerInFlight == launch.kind = "worker" /\ launch.pc # "idle"

\* the operations of the window's thread that run sync, apply, unapply or
\* restore
UIOperations == {"vm_toggle_mod", "toggle_all_mods", "load_mods"}

\* C26: Single writer.  From the launch_game that starts a worker until
\* on_game_finished, no toggle_mod, toggle_all_mods or load_mods of the
\* window runs and no second worker is started.
C26_SingleWriter ==
    [][WorkerInFlight => last'.op \notin UIOperations \cup {"launch_game"}]_vars

----------------------------------------------------------------------------
(* wait_for_game_closed *)

\* wait_for_game_closed returns in this step
WaitReturns == launch.pc # "done" /\ launch'.pc = "done"

\* C27: Bounded process discovery.  wait_for_game_closed looks for the
\* process at most MaxPolls times and the discovery always comes to an end;
\* it returns False only after MaxPolls polls that found no process; once a
\* poll has found the process it returns only True, and only in a step in
\* which no game process runs.
C27_BoundedDiscovery ==
    /\ [](launch.polls <= MaxPolls)
    /\ (launch.pc = "poll") ~> (launch.pc # "poll")
    /\ [][WaitReturns =>
            IF launch.pc = "poll"
            THEN launch.polls = MaxPolls /\ launch'.result = "not detected"
            ELSE ~launch.running /\ ~launch'.running
                 /\ launch'.result = "closed"]_vars

\* the process came up at the last poll, and the wait returned True once it
\* had gone
C27_Witness ==
    /\ launch.kind = "wait"
    /\ launch.pc = "done"
    /\ launch.result = "closed"
    /\ launch.polls = MaxPolls

\* the step logs one message and leaves the store, the game files, the
\* backups and the launch as they are
StopsWithOneMessage ==
    /\ Len(last'.log) = 1
    /\ ~last'.ok
    /\ UNCHANGED <<status, game, backups, launch>>

\* C28: Structural failures abort early without side effects.  A load_mods
\* without a mods directory, and a launch_game without a mods directory or
\* without a game executable path, log one message, change neither the
\* store nor a game file nor a backup, and start no launch.
C28_StructuralFailures ==
    [][/\ (last'.op = "load_mods" /\ ~setup.mods_dir_exists) => StopsWithOneMessage
       /\ (last'.op = "launch_game" /\ setup.game_exe_path = "") => StopsWithOneMessage
       /\ (last'.op = "launch_game" /\ ~setup.mods_dir_exists) => StopsWithOneMessage]_vars

----------------------------------------------------------------------------
(* Loss of the status store *)

\* the contents that are originals of the game
Originals == GameContents \cup {"orig"}

\* C29: Backups survive loss of the status store.  When the store has no
\* applied hash for a mod although a game file holds mod content and the
\* mod's backup of that file holds an original (and no other mod has a
\* backup of the file), enabling the mod in the window, whatever its content
\* is now, leaves an original in the backup, and disabling it afterwards
\* gives the game file the original back.
C29_BackupSurvivesStoreLoss ==
    [][\A m \in ModPaths, g \in GamePaths :
        ( /\ last'.op = "vm_toggle_mod" /\ last'.path = m /\ last'.enable
          /\ AppliedHashOf(status, m) = NoHash
          /\ game[g] \in ModContents
          /\ backups[GetBackupPath(m, g)] \in Originals
          /\ \A other \in ModPaths \ {m} :
                 backups[GetBackupPath(other, g)] = Absent )
        => /\ backups'[GetBackupPath(m, g)] = backups[GetBackupPath(m, g)]
           /\ UnapplyMod(World', m).w.game[g] = backups[GetBackupPath(m, g)]]_vars

----------------------------------------------------------------------------
(* Point mutations of the store *)

\* the records of the two stores differ at most in the record of the path,
\* and there at most in the field `enabled` or `applied_hash`
OnlyFieldChanged(old, new, file_path, field) ==
    /\ Len(new) = Len(old)
    /\ \A i \in 1..Len(old) :
           IF old[i].path = GetRelativePath(file_path)
           THEN /\ new[i].path = old[i].path
                /\ new[i].hash = old[i].hash
                /\ field = "enabled" => new[i].applied_hash = old[i].applied_hash
                /\ field = "applied_hash" => new[i].enabled = old[i].enabled
           ELSE new[i] = old[i]

\* C30: Point mutations create absent records.  set_status and
\* set_applied_hash on a path without a record append a record for it with
\* the hash of the file and leave the store dirty; on a path with a record
\* they change only their own field of it.
C30_PointMutations ==
    [][\A m \in TrackedMods :
        /\ (last'.op = "set_status" /\ last'.path = m)
               => /\ dirty'
                  /\ IF HasEntry(status, m)
                     THEN /\ OnlyFieldChanged(status, status', m, "enabled")
                          /\ GetStatus(status', m) = last'.enable
                     ELSE status' = Append(status,
                              Entry(GetRelativePath(m), GetFileHash(mods[m]),
                                    NoHash, last'.enable))
        /\ (last'.op = "set_applied_hash" /\ last'.path = m)
               => /\ dirty'
                  /\ IF HasEntry(status, m)
                     THEN OnlyFieldChanged(status, status', m, "applied_hash")
                     ELSE /\ Len(status') = Len(status) + 1
                          /\ HasEntry(status', m)
                          /\ GetEntry(status', m).hash = GetFileHash(mods[m])
                          /\ ~GetEntry(status', m).enabled]_vars

----------------------------------------------------------------------------
(* The running indicator of the window *)

\* the launch that launch_game started is over for the window: the finished
\* signal of its worker and the event of its timer have both been delivered
LaunchSettled ==
    /\ launch.kind = "worker"
    /\ launch.pc = "idle"
    /\ ~ui.timer

\* C31: The running indicator settles to idle.  Once the finished signal of
\* the worker and the timer event of its launch have been delivered, the
\* window's is_running is false (the launch button, the settings button and
\* the mod list follow that flag).
C31_IndicatorSettles == LaunchSettled => ~ui.is_running

----------------------------------------------------------------------------
(* The worker's finished signal *)

\* the steps GameLauncherWorker.run takes after its start
WorkerSteps == {"worker_sync", "worker_verify", "game_start", "worker_wait"}

----------------------------------------------------------------------------
(* A launch while the game runs *)

\* C33: Launch while the game is already running.  When a game process runs
\* as the worker starts, the worker returns in that step: the mods, the game
\* files and the backups are as before, the store of its loader is the one
\* it read, nothing was synced or verified and game.start() was not called;
\* and a worker that ended this way never has.
C33_LaunchWhileRunning ==
    /\ [][(last'.op = "worker_begin" /\ launch.running)
            => /\ UNCHANGED <<mods, game, backups, status, statusFile>>
               /\ launch'.status = Load(statusFile)
               /\ launch'.pc = "done"
               /\ launch'.result = "already running"
               /\ launch'.running]_vars
    /\ [](launch.result = "already running"
            => ~launch.synced /\ ~launch.verified /\ ~launch.started)

\* the worker has returned because the game that a quick launch started
\* was running
C33_Witness ==
    /\ last.op = "worker_begin"
    /\ launch.kind = "worker"
    /\ launch.result = "already running"
    /\ launch.running

----------------------------------------------------------------------------
(* quick_launch *)

\* no two enabled records of the store have the same file name
NoEnabledDuplicate(data) ==
    \A i, j \in 1..Len(data) :
        (data[i].enabled /\ data[j].enabled
         /\ Name(data[i].path) = Name(data[j].path)) => i = j

\* C34: Quick-launch guard.  quick_launch has called game.start() exactly
\* when it returns success, and then its sync and its verify_enabled_mods
\* had returned; it goes on from its sync only when the sync did not raise,
\* found no orphaned enabled mod and left no two enabled mods of one file
\* name; it goes on from the test of the game path only when the game
\* executable was found.
C34_QuickLaunchGuard ==
    /\ [](launch.kind = "quick"
            => /\ launch.started <=> launch.result = "success"
               /\ launch.started => (launch.synced /\ launch.verified)
               /\ launch.pc = "start" => (launch.synced /\ launch.verified)
               /\ launch.pc = "verify" => launch.synced)
    /\ [][(last'.op = "quick_sync" /\ launch'.pc # "done")
            => /\ SyncWithFiles(LaunchWorld).orphaned = <<>>
               /\ NoEnabledDuplicate(launch'.status)
               /\ launch'.synced]_vars
    /\ [][(last'.op = "quick_sync" /\ launch'.pc = "done")
            => ~launch'.started /\ launch'.result # "success"]_vars

\* quick_launch has started the game with one enabled mod in the store
C34_Witness ==
    /\ launch.kind = "quick"
    /\ launch.result = "success"
    /\ \E i \in 1..Len(launch.status) : launch.status[i].enabled

----------------------------------------------------------------------------
(* The click on one mod *)

\* the mods of the same file name that are applied: they have a backup of a
\* game file that holds their content
AppliedConflicts(w, mod_path) ==
    {other \in ModPaths \ {mod_path} :
        /\ Name(other) = Name(mod_path)
        /\ w.mods[other] # Absent
        /\ \E g \in GamePaths :
               /\ w.backups[GetBackupPath(other, g)] # Absent
               /\ w.game[g] = w.mods[other]}

\* C35: Conflict resolution in the single-mod toggle path.  When a click
\* enables a mod while another mod of its file name is enabled and applied,
\* the user is asked; when the mod ends up applied, the other mod's backups
\* have been restored and removed, and the mod's own backups hold no mod
\* content.
C35_ConflictResolution ==
    [][\A m \in ModPaths :
        ( /\ last'.op \in {"on_toggle_clicked", "on_toggle_clicked_asked"}
          /\ last'.path = m /\ last'.enable
          /\ AppliedConflicts(World, m) # {} )
        => /\ last'.op = "on_toggle_clicked_asked"
           /\ last'.ok
                  => \A g \in Targets(World, m) :
                         /\ backups'[GetBackupPath(m, g)] \notin ModContents
                         /\ \A other \in AppliedConflicts(World, m) :
                                backups'[GetBackupPath(other, g)] = Absent
           /\ ~last'.ok => UNCHANGED <<status, game, backups>>]_vars

----------------------------------------------------------------------------
(* Overlays and their backups *)

\* the step has changed game file g to the content of mod m
OverlaidBy(m, g) ==
    /\ game'[g] # game[g]
    /\ mods[m] # Absent
    /\ game'[g] = mods[m]
    /\ g \in Targets(World, m)

\* C36: No overlay without a backup.  After toggle_mod(M, true), directly or
\* through the view model, every game file the call changed to M's content
\* has a backup at M's backup path for it; after verify_enabled_mods,
\* install_mod or an enable-all, every game file the call changed to a mod's
\* content has a backup at the backup path of a mod with that content.
C36_NoOverlayWithoutBackup ==
    [][\A g \in GamePaths :
        /\ \A m \in ModPaths :
               ( /\ last'.op \in {"toggle_mod", "vm_toggle_mod"}
                 /\ last'.path = m /\ last'.enable
                 /\ game'[g] # game[g] )
               => /\ OverlaidBy(m, g)
                  /\ backups'[GetBackupPath(m, g)] # Absent
        /\ ( /\ \/ last'.op \in {"verify_enabled_mods", "install_mod"}
                 \/ (last'.op = "toggle_all_mods" /\ last'.enable)
             /\ game'[g] # game[g] )
           => \E m \in ModPaths :
                  /\ OverlaidBy(m, g)
                  /\ backups'[GetBackupPath(m, g)] # Absent]_vars

\* C36 witness: verify_enabled_mods has just overlaid a game file that an
\* update had replaced, and the backup of that file for ModA is in place
C36_Witness ==
    /\ last.op = "verify_enabled_mods"
    /\ \E i \in 1..Len(last.log) :
           last.log[i] = <<GameF1, "re-backed up & applied">>
    /\ game[GameF1] = mods[ModA]
    /\ backups[GetBackupPath(ModA, GameF1)] = "patch"

====
